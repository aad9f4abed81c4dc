--------------------------- MODULE VTScrollProofs ---------------------------
(***************************************************************************)
(* What holds of VTScroll for every size of the screen, any number of      *)
(* saved lines, all margins and whatever the lines contain.                *)
(***************************************************************************)
EXTENDS VTScroll, TLAPS

\* Shorthands for the tuples that the actions leave unchanged.
USE DEF vars, pending, margins

-----------------------------------------------------------------------------
(* The operations on windows, row by row.                                  *)

Buffers == [(-savelines)..max_row -> Line]
Windows == [Row -> Line \cup {Garbled}]

LEMMA Overlaid ==
  /\ \A line : Overlay(Blank, line) = line
  /\ \A old \in Line \cup {Garbled}, line \in Line : Overlay(old, line) \in Line \cup {Garbled}
BY DEF Overlay

LEMMA CopyAt ==
  ASSUME NEW w \in Windows, NEW first \in Int, NEW n \in Int, NEW amount \in Int
  PROVE  /\ Copy(w, first, n, amount) \in Windows
         /\ \A r \in Row : Copy(w, first, n, amount)[r]
              = IF r \in (first - amount)..(first - amount + n - 1)
                THEN IF r + amount \in Row THEN w[r + amount] ELSE Garbled ELSE w[r]
<1>1. CASE n <= 0
  <2>1. Copy(w, first, n, amount) = w
    BY <1>1 DEF Copy
  <2> QED BY <1>1, <2>1
<1>2. CASE ~(n <= 0)
  <2>1. Copy(w, first, n, amount)
          = [r \in Row |-> IF r \notin (first - amount)..(first - amount + n - 1) THEN w[r]
                           ELSE IF r + amount \in Row THEN w[r + amount] ELSE Garbled]
    BY <1>2 DEF Copy
  <2> QED BY <2>1 DEF Windows
<1> QED BY <1>1, <1>2

LEMMA WipeAt ==
  ASSUME NEW w \in Windows, NEW first \in Int, NEW n \in Int
  PROVE  /\ Wipe(w, first, n) \in Windows
         /\ \A r \in Row : Wipe(w, first, n)[r]
              = IF r \in first..(first + n - 1) THEN Blank ELSE w[r]
BY LineAssumption DEF Wipe, Windows

LEMMA RefreshedAt ==
  ASSUME NEW w \in Windows, NEW b \in Buffers, NEW first \in Int, NEW n \in Int,
         NEW amt \in Int, NEW tl \in (-savelines)..0
  PROVE  /\ Refreshed(w, b, first, n, amt, tl) \in Windows
         /\ \A r \in Row : Refreshed(w, b, first, n, amt, tl)[r]
              = IF r \in first..(first + n - 1) /\ Source(r, amt) \in Row
                THEN Overlay(w[r], b[Source(r, amt) + tl]) ELSE w[r]
<1>1. \A i \in Row : i + tl \in (-savelines)..max_row
  BY SizeAssumption DEF Row
<1>2. \A i \in Row : b[i + tl] \in Line
  BY <1>1 DEF Buffers
<1>3. \A r \in Row : w[r] \in Line \cup {Garbled}
  BY DEF Windows
<1>4. \A r \in Row : Source(r, amt) \in Row
                       => Overlay(w[r], b[Source(r, amt) + tl]) \in Line \cup {Garbled}
  BY <1>2, <1>3, Overlaid
<1> QED BY <1>3, <1>4 DEF Refreshed, Windows

\* Rows that are wiped and drawn with nothing pending show the buffer.
LEMMA RedrawnAt ==
  ASSUME NEW w \in Windows, NEW b \in Buffers, NEW first \in Int, NEW n \in Int,
         topline \in (-savelines)..0
  PROVE  /\ Redrawn(w, b, first, n) \in Windows
         /\ \A r \in Row : Redrawn(w, b, first, n)[r]
              = IF r \in first..(first + n - 1) THEN b[r + topline] ELSE w[r]
<1> DEFINE v == Wipe(w, first, n)
<1>1. v \in Windows /\ \A r \in Row : v[r] = IF r \in first..(first + n - 1) THEN Blank ELSE w[r]
  BY WipeAt
<1>2. \A r \in Row : Source(r, 0) = r
  BY SizeAssumption DEF Source, Row
<1>3. Redrawn(w, b, first, n) = Refreshed(v, b, first, n, 0, topline)
  BY DEF Redrawn
<1> HIDE DEF v
<1>4. /\ Redrawn(w, b, first, n) \in Windows
      /\ \A r \in Row : Redrawn(w, b, first, n)[r]
           = IF r \in first..(first + n - 1) /\ Source(r, 0) \in Row
             THEN Overlay(v[r], b[Source(r, 0) + topline]) ELSE v[r]
  BY <1>1, <1>3, RefreshedAt
<1> SUFFICES ASSUME NEW r \in Row
             PROVE  Redrawn(w, b, first, n)[r]
                      = IF r \in first..(first + n - 1) THEN b[r + topline] ELSE w[r]
  BY <1>4
<1>5. CASE r \in first..(first + n - 1)
  <2>1. v[r] = Blank
    BY <1>1, <1>5
  <2>2. Redrawn(w, b, first, n)[r] = Overlay(Blank, b[r + topline])
    BY <1>2, <1>4, <1>5, <2>1
  <2> QED BY <1>5, <2>2, Overlaid
<1>6. CASE r \notin first..(first + n - 1)
  BY <1>1, <1>4, <1>6
<1> QED BY <1>5, <1>6

LEMMA Bounds ==
  /\ \A a, b \in Int : /\ Smaller(a, b) \in Int /\ Smaller(a, b) <= a /\ Smaller(a, b) <= b
                       /\ Smaller(a, b) \in {a, b}
  /\ \A a, b \in Int : /\ Larger(a, b) \in Int /\ a <= Larger(a, b) /\ b <= Larger(a, b)
                       /\ Larger(a, b) \in {a, b}
BY DEF Smaller, Larger

\* What the arithmetic below needs of the state.
Placed ==
  /\ max_row \in Nat /\ shift \in Nat /\ bot = max_row - shift
  /\ topline \in (-savelines)..0 /\ topline = -shift
  /\ scroll_amt \in Int
  /\ top_marg \in Row /\ bot_marg \in Row /\ top_marg <= bot_marg
  /\ buf \in Buffers /\ win \in Windows

LEMMA TypePlaced == TypeOK => Placed
BY SizeAssumption DEF TypeOK, Placed, shift, bot, Row, Buffers, Windows

LEMMA OpenedAt ==
  ASSUME Placed, NEW w \in Windows, NEW where \in Row, NEW last \in Row, NEW n \in Nat,
         NEW amount \in 0..n
  PROVE  /\ Opened(w, where, last, n, amount) \in Windows
         /\ \A r \in Row : Opened(w, where, last, n, amount)[r]
              = IF r \in (where + shift)..(where + shift + n - 1) THEN Blank
                ELSE IF r \in (where + shift + n)..(last + shift) THEN w[r - amount] ELSE w[r]
<1> DEFINE first == where + shift + n - amount
           count == last - where + 1 - n - Larger(last - bot, 0)
           size  == n - Beyond(where, n)
           v     == Copy(w, first, count, -amount)
<1>0. where \in 0..max_row /\ last \in 0..max_row /\ max_row \in Nat /\ shift \in Nat
      /\ bot = max_row - shift
  BY DEF Placed, Row
<1>1. first \in Int /\ count \in Int /\ size \in Int
  BY <1>0 DEF Beyond, Larger
<1>2. /\ first - (-amount) = where + shift + n
      /\ first - (-amount) + count - 1 = Smaller(last + shift, max_row)
      /\ where + shift + size - 1 = Smaller(where + shift + n - 1, max_row)
  BY <1>0 DEF Beyond, Larger, Smaller
<1>3. /\ v \in Windows
      /\ \A r \in Row : v[r]
           = IF r \in (where + shift + n)..Smaller(last + shift, max_row)
             THEN IF r + (-amount) \in Row THEN w[r + (-amount)] ELSE Garbled ELSE w[r]
  BY <1>1, <1>2, CopyAt
<1>4. Opened(w, where, last, n, amount) = Wipe(v, where + shift, size)
  BY DEF Opened
<1> HIDE DEF first, count, size, v
<1>5. /\ Opened(w, where, last, n, amount) \in Windows
      /\ \A r \in Row : Opened(w, where, last, n, amount)[r]
           = IF r \in (where + shift)..Smaller(where + shift + n - 1, max_row) THEN Blank
             ELSE v[r]
  BY <1>0, <1>1, <1>2, <1>3, <1>4, WipeAt
<1> SUFFICES ASSUME NEW r \in Row
             PROVE  Opened(w, where, last, n, amount)[r]
              = IF r \in (where + shift)..(where + shift + n - 1) THEN Blank
                ELSE IF r \in (where + shift + n)..(last + shift) THEN w[r - amount] ELSE w[r]
  BY <1>5
<1>6. r \in 0..max_row
  BY DEF Row
<1>7. CASE r \in (where + shift)..(where + shift + n - 1)
  BY <1>0, <1>5, <1>6, <1>7 DEF Smaller
<1>8. CASE r \in (where + shift + n)..(last + shift)
  <2>1. /\ r \in (where + shift + n)..Smaller(last + shift, max_row)
        /\ r \notin (where + shift)..Smaller(where + shift + n - 1, max_row)
        /\ r + (-amount) = r - amount
        /\ r - amount \in 0..max_row
        /\ r \notin (where + shift)..(where + shift + n - 1)
    BY <1>0, <1>6, <1>8 DEF Smaller
  <2>2. v[r] = w[r - amount]
    BY <1>3, <2>1 DEF Row
  <2>3. Opened(w, where, last, n, amount)[r] = v[r]
    BY <1>5, <2>1
  <2> QED BY <1>8, <2>1, <2>2, <2>3
<1>9. CASE r \notin (where + shift)..(where + shift + n - 1)
           /\ r \notin (where + shift + n)..(last + shift)
  <2>1. /\ r \notin (where + shift + n)..Smaller(last + shift, max_row)
        /\ r \notin (where + shift)..Smaller(where + shift + n - 1, max_row)
    BY <1>0, <1>6, <1>9 DEF Smaller
  <2>2. v[r] = w[r]
    BY <1>3, <2>1
  <2>3. Opened(w, where, last, n, amount)[r] = v[r]
    BY <1>5, <2>1
  <2> QED BY <1>9, <2>2, <2>3
<1> QED BY <1>7, <1>8, <1>9

-----------------------------------------------------------------------------
(* The window after the pending scrolls, row by row.                       *)

\* The first row that a flush of ref rows up draws.
FirstDrawn(ref, last) == Smaller(last - ref + 1 + shift, max_row - scroll_amt + 1)

\* The rows that a flush draws from the buffer, and those that it moves.
Fresh(r, ref, top, last) ==
  \/ /\ scroll_amt > 0 /\ r \in FirstDrawn(ref, last)..(last + shift)
     /\ \/ scrollWidget /\ top = 0
        \/ r >= top + shift
        \/ last - ref + scroll_amt < bot
  \/ scroll_amt < 0 /\ r \in (top + shift)..(top + shift - ref - 1)
Moved(r, ref, top, last) ==
  \/ /\ scroll_amt > 0 /\ r < FirstDrawn(ref, last)
     /\ (scrollWidget /\ top = 0) \/ r >= top + shift
  \/ scroll_amt < 0 /\ r \in (top + shift - ref)..(last + shift)

FlushedAt(w, b, ref, top, last) ==
  /\ w \in Windows
  /\ \A r \in Row : w[r] = IF Fresh(r, ref, top, last) THEN b[r + topline]
                           ELSE IF Moved(r, ref, top, last) THEN win[r + scroll_amt] ELSE win[r]

LEMMA DownAt ==
  ASSUME Placed, scroll_amt < 0, NEW b \in Buffers, NEW ref \in Int, ref <= scroll_amt,
         NEW top \in Row, NEW last \in Row
  PROVE  FlushedAt(FlushedDown(b, ref, top, last), b, ref, top, last)
<1> DEFINE v    == Opened(win, top, last, -ref, -scroll_amt)
           size == -ref - Beyond(top, -ref)
<1>0. /\ top \in 0..max_row /\ last \in 0..max_row /\ max_row \in Nat /\ shift \in Nat
      /\ bot = max_row - shift /\ scroll_amt \in Int
      /\ -ref \in Nat /\ -scroll_amt \in 0..(-ref)
      /\ topline \in (-savelines)..0 /\ win \in Windows
  BY DEF Placed, Row
<1>1. /\ v \in Windows
      /\ \A r \in Row : v[r]
           = IF r \in (top + shift)..(top + shift + (-ref) - 1) THEN Blank
             ELSE IF r \in (top + shift + (-ref))..(last + shift)
             THEN win[r - (-scroll_amt)] ELSE win[r]
  BY <1>0, OpenedAt
<1>2. size \in Int /\ top + shift + size - 1 = Smaller(top + shift - ref - 1, max_row)
  BY <1>0 DEF Beyond, Larger, Smaller
<1>3. FlushedDown(b, ref, top, last) = Refreshed(v, b, top + shift, size, 0, topline)
  BY DEF FlushedDown
<1> HIDE DEF v, size
<1>4. /\ FlushedDown(b, ref, top, last) \in Windows
      /\ \A r \in Row : FlushedDown(b, ref, top, last)[r]
           = IF r \in (top + shift)..Smaller(top + shift - ref - 1, max_row)
                  /\ Source(r, 0) \in Row
             THEN Overlay(v[r], b[Source(r, 0) + topline]) ELSE v[r]
  BY <1>0, <1>1, <1>2, <1>3, RefreshedAt
<1> SUFFICES ASSUME NEW r \in Row
             PROVE  FlushedDown(b, ref, top, last)[r]
                      = IF Fresh(r, ref, top, last) THEN b[r + topline]
                        ELSE IF Moved(r, ref, top, last) THEN win[r + scroll_amt] ELSE win[r]
  BY <1>4 DEF FlushedAt
<1>5. r \in 0..max_row /\ Source(r, 0) = r
  BY DEF Row, Source
<1>6. /\ Fresh(r, ref, top, last) <=> r \in (top + shift)..(top + shift - ref - 1)
      /\ Moved(r, ref, top, last) <=> r \in (top + shift - ref)..(last + shift)
      /\ r \in (top + shift)..Smaller(top + shift - ref - 1, max_row)
           <=> r \in (top + shift)..(top + shift - ref - 1)
      /\ r - (-scroll_amt) = r + scroll_amt
      /\ top + shift + (-ref) = top + shift - ref
  BY <1>0, <1>5 DEF Fresh, Moved, Smaller
<1>7. CASE Fresh(r, ref, top, last)
  <2>1. v[r] = Blank
    BY <1>0, <1>1, <1>5, <1>6, <1>7
  <2>2. FlushedDown(b, ref, top, last)[r] = Overlay(v[r], b[r + topline])
    BY <1>4, <1>5, <1>6, <1>7
  <2> QED BY <1>7, <2>1, <2>2, Overlaid
<1>8. CASE ~Fresh(r, ref, top, last)
  <2>1. FlushedDown(b, ref, top, last)[r] = v[r]
    BY <1>4, <1>6, <1>8
  <2>2. v[r] = IF Moved(r, ref, top, last) THEN win[r + scroll_amt] ELSE win[r]
    <3>1. v[r] = IF r \in (top + shift)..(top + shift + (-ref) - 1) THEN Blank
                 ELSE IF r \in (top + shift + (-ref))..(last + shift)
                 THEN win[r - (-scroll_amt)] ELSE win[r]
      BY <1>1
    <3>2. /\ r \notin (top + shift)..(top + shift + (-ref) - 1)
          /\ r \in (top + shift + (-ref))..(last + shift) <=> Moved(r, ref, top, last)
      BY <1>0, <1>5, <1>6, <1>8
    <3> QED BY <1>6, <3>1, <3>2
  <2> QED BY <1>8, <2>1, <2>2
<1> QED BY <1>7, <1>8

LEMMA UpAt ==
  ASSUME Placed, scroll_amt > 0, NEW b \in Buffers, NEW ref \in Int, ref >= scroll_amt,
         NEW top \in Row, NEW last \in Row, top <= last
  PROVE  FlushedAt(FlushedUp(b, ref, top, last), b, ref, top, last)
<1> DEFINE end   == max_row - scroll_amt + 1
           still == last - top - ref + 1
           first == Smaller(last - ref + 1 + shift, end)
           below == bot - (last - ref + scroll_amt)
           above == Larger(top + scroll_amt - 1 - bot, 0)
           from  == top + shift + scroll_amt
<1>0. /\ top \in 0..max_row /\ last \in 0..max_row /\ top <= last
      /\ max_row \in Nat /\ shift \in Nat
      /\ bot = max_row - shift /\ scroll_amt \in Int /\ scroll_amt > 0
      /\ ref \in Int /\ ref >= scroll_amt
      /\ topline \in (-savelines)..0 /\ win \in Windows
  BY DEF Placed, Row
<1>1. first = FirstDrawn(ref, last) /\ first \in Int
      /\ first <= last - ref + 1 + shift /\ first <= end
      /\ (first = last - ref + 1 + shift \/ first = end)
  BY <1>0 DEF FirstDrawn, Smaller
<1>2. CASE scrollWidget /\ top = 0
  <2> DEFINE n    == Smaller(still + shift, end)
             size == IF last > bot THEN Larger(ref - (last - bot), scroll_amt) ELSE ref
             v    == Copy(win, scroll_amt, n, scroll_amt)
  <2>1. n = first /\ size \in Int /\ first + size - 1 = Smaller(last + shift, max_row)
    <3>1. n = first
      BY <1>0, <1>2
    <3>2. CASE last > bot
      BY <1>0, <3>1, <3>2 DEF Smaller, Larger
    <3>3. CASE ~(last > bot)
      BY <1>0, <3>1, <3>3 DEF Smaller, Larger
    <3> QED BY <3>1, <3>2, <3>3
  <2>2. FlushedUp(b, ref, top, last) = Redrawn(v, b, first, size)
    BY <1>2 DEF FlushedUp
  <2> HIDE DEF n, size
  <2>3. /\ v \in Windows
        /\ \A r \in Row : v[r]
             = IF r \in (scroll_amt - scroll_amt)..(scroll_amt - scroll_amt + n - 1)
               THEN IF r + scroll_amt \in Row THEN win[r + scroll_amt] ELSE Garbled ELSE win[r]
    BY <1>0, <1>1, <2>1, CopyAt
  <2> HIDE DEF v
  <2>4. /\ FlushedUp(b, ref, top, last) \in Windows
        /\ \A r \in Row : FlushedUp(b, ref, top, last)[r]
             = IF r \in first..(first + size - 1) THEN b[r + topline] ELSE v[r]
    BY <1>0, <1>1, <2>1, <2>2, <2>3, RedrawnAt
  <2> SUFFICES ASSUME NEW r \in Row
               PROVE  FlushedUp(b, ref, top, last)[r]
                        = IF Fresh(r, ref, top, last) THEN b[r + topline]
                          ELSE IF Moved(r, ref, top, last) THEN win[r + scroll_amt] ELSE win[r]
    BY <2>4 DEF FlushedAt
  <2>5. r \in 0..max_row
    BY DEF Row
  <2>6. /\ Fresh(r, ref, top, last) <=> r \in first..(last + shift)
        /\ Moved(r, ref, top, last) <=> r < first
    BY <1>0, <1>1, <1>2 DEF Fresh, Moved
  <2>7. /\ r \in first..(first + size - 1) <=> r \in first..(last + shift)
        /\ r \in (scroll_amt - scroll_amt)..(scroll_amt - scroll_amt + n - 1) <=> r < first
        /\ r < first => r + scroll_amt \in 0..max_row
    BY <1>0, <1>1, <2>1, <2>5 DEF Smaller
  <2>8. v[r] = IF r < first THEN win[r + scroll_amt] ELSE win[r]
    BY <2>3, <2>7 DEF Row
  <2> HIDE DEF first
  <2> QED BY <2>4, <2>6, <2>7, <2>8
<1>3. CASE ~(scrollWidget /\ top = 0) /\ below > 0
  <2> DEFINE size == IF last > bot THEN scroll_amt + below ELSE ref
             v    == Copy(win, from, still, scroll_amt)
  <2>1. /\ first = last - ref + 1 + shift /\ size \in Int /\ still \in Int /\ from \in Int
        /\ first + size - 1 = Smaller(last + shift, max_row)
        /\ from - scroll_amt = top + shift /\ top + shift + still = first
    BY <1>0, <1>3 DEF Smaller
  <2>2. FlushedUp(b, ref, top, last) = Redrawn(v, b, first, size)
    BY <1>3 DEF FlushedUp
  <2>3. /\ v \in Windows
        /\ \A r \in Row : v[r]
             = IF r \in (from - scroll_amt)..(from - scroll_amt + still - 1)
               THEN IF r + scroll_amt \in Row THEN win[r + scroll_amt] ELSE Garbled ELSE win[r]
    BY <1>0, <2>1, CopyAt
  <2> HIDE DEF v, size
  <2>4. /\ FlushedUp(b, ref, top, last) \in Windows
        /\ \A r \in Row : FlushedUp(b, ref, top, last)[r]
             = IF r \in first..(first + size - 1) THEN b[r + topline] ELSE v[r]
    BY <1>0, <1>1, <2>1, <2>2, <2>3, RedrawnAt
  <2> SUFFICES ASSUME NEW r \in Row
               PROVE  FlushedUp(b, ref, top, last)[r]
                        = IF Fresh(r, ref, top, last) THEN b[r + topline]
                          ELSE IF Moved(r, ref, top, last) THEN win[r + scroll_amt] ELSE win[r]
    BY <2>4 DEF FlushedAt
  <2>5. r \in 0..max_row
    BY DEF Row
  <2>6. /\ Fresh(r, ref, top, last) <=> r \in first..(last + shift)
        /\ Moved(r, ref, top, last) <=> r < first /\ r >= top + shift
    BY <1>0, <1>1, <1>3 DEF Fresh, Moved
  <2>7. /\ r \in first..(first + size - 1) <=> r \in first..(last + shift)
        /\ r \in (from - scroll_amt)..(from - scroll_amt + still - 1)
             <=> r < first /\ r >= top + shift
        /\ r < first => r + scroll_amt \in 0..max_row
    BY <1>0, <1>1, <2>1, <2>5 DEF Smaller
  <2>8. v[r] = IF r < first /\ r >= top + shift THEN win[r + scroll_amt] ELSE win[r]
    BY <2>3, <2>7 DEF Row
  <2> HIDE DEF first
  <2> QED BY <2>4, <2>6, <2>7, <2>8
<1>4. CASE ~(scrollWidget /\ top = 0) /\ ~(below > 0)
  <2> DEFINE n    == still + below
             low  == first + above
             size == scroll_amt - above
             v    == Copy(win, from, n, scroll_amt)
  <2>1. /\ first = end /\ size \in Int /\ n \in Int /\ from \in Int /\ low \in Int
        /\ low + size - 1 = max_row /\ low = Larger(top + shift, end)
        /\ from - scroll_amt = top + shift /\ top + shift + n = end
    BY <1>0, <1>4 DEF Smaller, Larger
  <2>2. FlushedUp(b, ref, top, last) = Redrawn(v, b, low, size)
    BY <1>4 DEF FlushedUp
  <2>3. /\ v \in Windows
        /\ \A r \in Row : v[r]
             = IF r \in (from - scroll_amt)..(from - scroll_amt + n - 1)
               THEN IF r + scroll_amt \in Row THEN win[r + scroll_amt] ELSE Garbled ELSE win[r]
    BY <1>0, <2>1, CopyAt
  <2> HIDE DEF v, size, n, low
  <2>4. /\ FlushedUp(b, ref, top, last) \in Windows
        /\ \A r \in Row : FlushedUp(b, ref, top, last)[r]
             = IF r \in low..(low + size - 1) THEN b[r + topline] ELSE v[r]
    BY <1>0, <2>1, <2>2, <2>3, RedrawnAt
  <2> SUFFICES ASSUME NEW r \in Row
               PROVE  FlushedUp(b, ref, top, last)[r]
                        = IF Fresh(r, ref, top, last) THEN b[r + topline]
                          ELSE IF Moved(r, ref, top, last) THEN win[r + scroll_amt] ELSE win[r]
    BY <2>4 DEF FlushedAt
  <2>5. r \in 0..max_row
    BY DEF Row
  <2>6. /\ Fresh(r, ref, top, last) <=> r >= end /\ r >= top + shift
        /\ Moved(r, ref, top, last) <=> r < end /\ r >= top + shift
    BY <1>0, <1>1, <1>4, <2>1, <2>5 DEF Fresh, Moved
  <2>7. /\ r \in low..(low + size - 1) <=> r >= end /\ r >= top + shift
        /\ r \in (from - scroll_amt)..(from - scroll_amt + n - 1)
             <=> r < end /\ r >= top + shift
        /\ r < end => r + scroll_amt \in 0..max_row
    BY <1>0, <2>1, <2>5 DEF Larger
  <2>8. v[r] = IF r < end /\ r >= top + shift THEN win[r + scroll_amt] ELSE win[r]
    BY <2>3, <2>7 DEF Row
  <2> HIDE DEF end
  <2> QED BY <2>4, <2>6, <2>7, <2>8
<1> QED BY <1>2, <1>3, <1>4

\* FlushScroll of the pending scrolls, whatever buffer it draws from.
LEMMA FlushAt ==
  ASSUME Placed, NEW b \in Buffers, NEW ref \in Int, NEW top \in Row, NEW last \in Row,
         top <= last, scroll_amt > 0 => ref >= scroll_amt, scroll_amt < 0 => ref <= scroll_amt
  PROVE  FlushedAt(FlushedWith(b, ref, top, last), b, ref, top, last)
<1>0. scroll_amt \in Int
  BY DEF Placed
<1>1. CASE scroll_amt > 0
  BY <1>1, UpAt DEF FlushedWith
<1>2. CASE scroll_amt < 0
  <2>1. ~(scroll_amt > 0)
    BY <1>0, <1>2
  <2> QED BY <1>2, <2>1, DownAt DEF FlushedWith
<1>3. CASE scroll_amt = 0
  <2>1. \A r : ~Fresh(r, ref, top, last) /\ ~Moved(r, ref, top, last)
    BY <1>3 DEF Fresh, Moved
  <2>2. FlushedWith(b, ref, top, last) = win
    BY <1>3 DEF FlushedWith
  <2> QED BY <2>1, <2>2 DEF FlushedAt, Placed
<1> QED BY <1>0, <1>1, <1>2, <1>3

-----------------------------------------------------------------------------
(* Types.                                                                  *)

TypeInv ==
  /\ TypeOK
  /\ refresh_amt \in (-max_row - 1)..(max_row + 1)

LEMMA TypeFlush ==
  ASSUME TypeInv
  PROVE  /\ Placed
         /\ FlushedAt(Flushed, buf, refresh_amt, top_marg, bot_marg)
         /\ FlushedSaved \in 0..savelines
<1>1. Placed
  BY TypePlaced DEF TypeInv
<1>2. /\ refresh_amt \in Int /\ top_marg \in Row /\ bot_marg \in Row /\ top_marg <= bot_marg
      /\ scroll_amt > 0 => refresh_amt >= scroll_amt
      /\ scroll_amt < 0 => refresh_amt <= scroll_amt
      /\ buf \in Buffers /\ savedlines \in 0..savelines /\ scroll_amt \in Int
  BY <1>1 DEF TypeInv, TypeOK, Placed
<1>3. FlushedSaved \in 0..savelines
  BY <1>2, SizeAssumption DEF FlushedSaved, Counted, Smaller
<1> QED BY <1>1, <1>2, <1>3, FlushAt DEF Flushed

\* What the buffer becomes.
LEMMA ChangedBuffers ==
  ASSUME Placed, NEW where \in Row, NEW n \in Nat
  PROVE  /\ Deleted(where, n) \in Buffers
         /\ Inserted(where, n) \in Buffers
         /\ \A first, last \in Int : Erased(first, last) \in Buffers
         /\ \A b \in Buffers, row \in Row, line \in Line : [b EXCEPT ![row] = line] \in Buffers
<1>0. /\ buf \in [(-savelines)..max_row -> Line] /\ max_row \in Nat /\ savelines \in Nat
      /\ where \in 0..max_row /\ bot_marg \in 0..max_row /\ Blank \in Line
  BY SizeAssumption, LineAssumption DEF Placed, Buffers, Row
<1>1. Deleted(where, n) \in Buffers
  <2> DEFINE from == IF scrollWidget /\ where = 0 THEN -savelines ELSE where
  <2>1. from \in (-savelines)..max_row
    BY <1>0
  <2>2. \A r \in (-savelines)..max_row : r \in from..(bot_marg - n)
                                           => r + n \in (-savelines)..max_row
    BY <1>0, <2>1
  <2>3. Deleted(where, n) = [r \in (-savelines)..max_row |->
          IF r \in from..(bot_marg - n) THEN buf[r + n]
          ELSE IF r \in from..bot_marg THEN Blank ELSE buf[r]]
    BY <1>0 DEF Deleted
  <2> HIDE DEF from
  <2> QED BY <1>0, <2>2, <2>3 DEF Buffers
<1>2. Inserted(where, n) \in Buffers
  <2>1. \A r \in (-savelines)..max_row : r \in (where + n)..bot_marg
                                           => r - n \in (-savelines)..max_row
    BY <1>0
  <2> QED BY <1>0, <2>1 DEF Inserted, Buffers
<1>3. \A first, last \in Int : Erased(first, last) \in Buffers
  BY <1>0 DEF Erased, Buffers
<1>4. \A b \in Buffers, row \in Row, line \in Line : [b EXCEPT ![row] = line] \in Buffers
  BY <1>0 DEF Buffers, Row
<1> QED BY <1>1, <1>2, <1>3, <1>4

PendingInv ==
  /\ scroll_amt \in Int /\ refresh_amt \in (-max_row - 1)..(max_row + 1)
  /\ scroll_amt > 0 => refresh_amt >= scroll_amt
  /\ scroll_amt < 0 => refresh_amt <= scroll_amt
  /\ scroll_amt = 0 => refresh_amt = 0
LinesInv == buf \in Buffers /\ win \in Windows /\ savedlines \in 0..savelines /\ PendingInv
PlaceInv ==
  /\ topline \in (-savelines)..0
  /\ cur_row \in Row /\ top_marg \in Row /\ bot_marg \in Row /\ top_marg <= bot_marg
  /\ jumpscroll \in BOOLEAN /\ scrollWidget \in BOOLEAN /\ spoiled \in BOOLEAN

LEMMA TypeParts == TypeInv <=> LinesInv /\ PlaceInv
<1>1. TypeInv => LinesInv /\ PlaceInv
  BY SizeAssumption DEF TypeInv, TypeOK, LinesInv, PendingInv, PlaceInv, Buffers, Windows
<1>2. ASSUME LinesInv, PlaceInv PROVE TypeInv
  <2>1. /\ scroll_amt \in (-max_row - 1)..(max_row + 1)
        /\ refresh_amt \in (-max_row - 2)..(max_row + 2)
        /\ refresh_amt \in (-max_row - 1)..(max_row + 1)
    BY <1>2, SizeAssumption DEF LinesInv, PendingInv
  <2> QED BY <1>2, <2>1 DEF TypeInv, TypeOK, LinesInv, PendingInv, PlaceInv, Buffers, Windows
<1> QED BY <1>1, <1>2

\* A flush, and the scroll that comes after it.
LEMMA TypeFlushThen ==
  ASSUME TypeInv, NEW amt \in (-max_row - 1)..(max_row + 1), FlushThen(amt)
  PROVE  win' \in Windows /\ savedlines' \in 0..savelines /\ PendingInv'
<1>1. win' \in Windows /\ savedlines' \in 0..savelines
  BY TypeFlush DEF FlushThen, FlushedAt
<1>2. scroll_amt' = amt /\ refresh_amt' = amt
  BY DEF FlushThen
<1> QED BY <1>1, <1>2, SizeAssumption DEF PendingInv

LEMMA TypeCounted ==
  ASSUME NEW count \in 0..savelines, NEW top, NEW n \in Int
  PROVE  Counted(count, top, n) \in 0..savelines
BY SizeAssumption DEF Counted, Smaller

LEMMA TypeCleared ==
  ASSUME TypeInv, NEW count \in 0..savelines, NEW top \in Row, NEW last \in Row, top <= last,
         Cleared(count, top, last)
  PROVE  LinesInv'
<1>0. Placed /\ PendingInv /\ max_row \in Nat
  BY TypeFlush, TypeParts DEF LinesInv, Placed
<1>1. buf' \in Buffers
  BY <1>0, ChangedBuffers DEF Cleared
<1>2. CASE shift > max_row
  BY <1>1, <1>2, TypeParts DEF Cleared, LinesInv, PendingInv
<1>3. CASE ~(shift > max_row)
  <2> DEFINE w == FlushedWith(buf, refresh_amt, top, last)
  <2>1. w \in Windows
    BY <1>0, FlushAt DEF Placed, PendingInv, FlushedAt
  <2>2. /\ win' = Wipe(w, shift, max_row - shift + 1)
        /\ savedlines' = Counted(count, top, scroll_amt)
        /\ scroll_amt' = 0 /\ refresh_amt' = 0
    BY <1>3 DEF Cleared
  <2> HIDE DEF w
  <2>3. win' \in Windows
    BY <1>0, <2>1, <2>2, WipeAt DEF Placed
  <2>4. savedlines' \in 0..savelines
    BY <1>0, <2>2, TypeCounted DEF Placed
  <2> QED BY <1>0, <1>1, <2>2, <2>3, <2>4 DEF LinesInv, PendingInv
<1> QED BY <1>2, <1>3

\* How far a region can be scrolled at once.
LEMMA ScrolledBy ==
  ASSUME TypeInv, NEW count \in Nat \ {0}
  PROVE  /\ Smaller(count, Height) \in 1..Height /\ Height \in 1..(max_row + 1)
         /\ max_row \in Nat
<1>1. max_row \in Nat /\ top_marg \in 0..max_row /\ bot_marg \in 0..max_row
      /\ top_marg <= bot_marg
  BY TypeFlush DEF Placed, Row
<1> QED BY <1>1 DEF Height, Smaller

LEMMA TypeSmoothUp ==
  ASSUME TypeInv, NEW n \in 1..Height, SmoothUp(n)
  PROVE  LinesInv'
<1> DEFINE end    == max_row - n + 1
           first  == Smaller(bot_marg - n + 1 + shift, end)
           hidden == Larger(bot_marg - bot, 0)
           above  == IF Saves \/ hidden = 0 THEN 0 ELSE Larger(top_marg + n - 1 - bot, 0)
           moved  == IF Saves THEN Copy(win, n, Smaller(Height - n + shift, end), n)
                     ELSE Copy(win, top_marg + shift + n, Height - n - hidden, n)
           size   == Smaller(n - above, shift)
<1>0. /\ Placed /\ PendingInv /\ max_row \in Nat /\ n \in Nat /\ shift \in Nat /\ bot \in Int
      /\ top_marg \in 0..max_row /\ bot_marg \in 0..max_row /\ Height \in Int
      /\ savedlines \in 0..savelines /\ win \in Windows
  BY TypeFlush, TypeParts DEF LinesInv, Placed, Row, Height
<1>1. end \in Int /\ first \in Int /\ hidden \in Int /\ above \in Int /\ size \in Int
  BY <1>0 DEF Smaller, Larger
<1>2. moved \in Windows
  <2>1. Smaller(Height - n + shift, end) \in Int
    BY <1>0, <1>1, Bounds
  <2> QED BY <1>0, <1>1, <2>1, CopyAt
<1>3. /\ buf' = Deleted(top_marg, n)
      /\ win' = Refreshed(Wipe(moved, first + above, n - above), buf',
                          first + above, size, 0, topline)
      /\ savedlines' = Counted(savedlines, top_marg, n)
      /\ UNCHANGED pending
  BY DEF SmoothUp
<1> HIDE DEF end, first, hidden, above, moved, size
<1>4. buf' \in Buffers
  BY <1>0, <1>3, ChangedBuffers DEF Placed
<1>5. win' \in Windows
  <2>1. Wipe(moved, first + above, n - above) \in Windows
    BY <1>0, <1>1, <1>2, WipeAt
  <2> QED BY <1>0, <1>1, <1>3, <1>4, <2>1, RefreshedAt DEF Placed
<1>6. savedlines' \in 0..savelines
  BY <1>0, <1>3, TypeCounted
<1> QED BY <1>0, <1>3, <1>4, <1>5, <1>6 DEF LinesInv, PendingInv

LEMMA TypeScrollUp ==
  ASSUME TypeInv, NEW count \in Nat \ {0}, ScrollUp(count)
  PROVE  LinesInv' /\ UNCHANGED spoiled
<1> DEFINE n == Smaller(count, Height)
<1>0. /\ n \in 1..Height /\ Height \in 1..(max_row + 1) /\ max_row \in Nat
      /\ Placed /\ LinesInv /\ PendingInv
  BY ScrolledBy, TypeFlush, TypeParts DEF LinesInv
<1>1. \/ /\ jumpscroll /\ buf' = Deleted(top_marg, n) /\ UNCHANGED spoiled
         /\ IF scroll_amt > 0 /\ refresh_amt + n <= Height THEN Postpone(n, n)
                                                           ELSE FlushThen(n)
      \/ n = Height /\ Cleared(savedlines, top_marg, bot_marg) /\ UNCHANGED spoiled
      \/ n < Height /\ SmoothUp(n) /\ UNCHANGED spoiled
  BY DEF ScrollUp, SmoothUp
<1> HIDE DEF n
<1>2. CASE Cleared(savedlines, top_marg, bot_marg) /\ UNCHANGED spoiled
  BY <1>0, <1>2, TypeCleared DEF Placed, LinesInv
<1>3. CASE SmoothUp(n) /\ UNCHANGED spoiled
  BY <1>0, <1>3, TypeSmoothUp
<1>4. CASE buf' = Deleted(top_marg, n) /\ UNCHANGED spoiled
           /\ IF scroll_amt > 0 /\ refresh_amt + n <= Height THEN Postpone(n, n)
                                                             ELSE FlushThen(n)
  <2>1. buf' \in Buffers
    BY <1>0, <1>4, ChangedBuffers DEF Placed
  <2>2. CASE scroll_amt > 0 /\ refresh_amt + n <= Height
    BY <1>0, <1>4, <2>1, <2>2 DEF Postpone, LinesInv, PendingInv
  <2>3. CASE ~(scroll_amt > 0 /\ refresh_amt + n <= Height)
    <3>1. n \in (-max_row - 1)..(max_row + 1)
      BY <1>0
    <3> QED BY <1>4, <2>1, <2>3, <3>1, TypeFlushThen DEF LinesInv
  <2> QED BY <2>2, <2>3
<1> QED BY <1>1, <1>2, <1>3, <1>4

LEMMA TypeScrollDown ==
  ASSUME TypeInv, NEW count \in Nat \ {0}, ScrollDown(count)
  PROVE  LinesInv' /\ UNCHANGED spoiled
<1> DEFINE n == Smaller(count, Height)
<1>0. /\ n \in 1..Height /\ Height \in 1..(max_row + 1) /\ max_row \in Nat
      /\ Placed /\ LinesInv /\ PendingInv
  BY ScrolledBy, TypeFlush, TypeParts DEF LinesInv
<1>1. /\ IF ~jumpscroll
         THEN win' = Opened(win, top_marg, bot_marg, n, n) /\ UNCHANGED <<savedlines, pending>>
         ELSE IF scroll_amt < 0 /\ - refresh_amt + n <= Height THEN Postpone(-n, -n)
                                                               ELSE FlushThen(-n)
      /\ buf' = Inserted(top_marg, n) /\ UNCHANGED spoiled
  BY DEF ScrollDown
<1> HIDE DEF n
<1>2. buf' \in Buffers
  BY <1>0, <1>1, ChangedBuffers DEF Placed
<1>3. CASE ~jumpscroll
  <2>1. win' \in Windows
    BY <1>0, <1>1, <1>3, OpenedAt DEF Placed
  <2> QED BY <1>0, <1>1, <1>2, <1>3, <2>1 DEF LinesInv, PendingInv
<1>4. CASE jumpscroll /\ scroll_amt < 0 /\ - refresh_amt + n <= Height
  BY <1>0, <1>1, <1>2, <1>4 DEF Postpone, LinesInv, PendingInv
<1>5. CASE jumpscroll /\ ~(scroll_amt < 0 /\ - refresh_amt + n <= Height)
  <2>1. -n \in (-max_row - 1)..(max_row + 1)
    BY <1>0
  <2> QED BY <1>1, <1>2, <1>5, <2>1, TypeFlushThen DEF LinesInv
<1> QED BY <1>3, <1>4, <1>5

\* Lines at the cursor.
LEMMA FromCursor ==
  ASSUME TypeInv, InRegion, NEW count \in Nat \ {0}
  PROVE  /\ Smaller(count, bot_marg - cur_row + 1) \in 1..(bot_marg - cur_row + 1)
         /\ max_row \in Nat /\ cur_row \in 0..max_row /\ bot_marg \in 0..max_row
         /\ top_marg \in 0..cur_row /\ cur_row <= bot_marg
<1>1. /\ max_row \in Nat /\ cur_row \in 0..max_row /\ bot_marg \in 0..max_row
      /\ top_marg \in 0..max_row /\ cur_row \in top_marg..bot_marg
  BY TypeFlush, TypeParts DEF Placed, PlaceInv, Row, InRegion
<1> QED BY <1>1 DEF Smaller

LEMMA TypeInsertLine ==
  ASSUME TypeInv, NEW count \in Nat \ {0}, InsertLine(count)
  PROVE  LinesInv'
<1> DEFINE n == Smaller(count, bot_marg - cur_row + 1)
<1>0. /\ n \in 1..(bot_marg - cur_row + 1) /\ max_row \in Nat
      /\ cur_row \in 0..max_row /\ bot_marg \in 0..max_row
      /\ Placed /\ LinesInv /\ PendingInv
  BY FromCursor, TypeFlush, TypeParts DEF LinesInv, InsertLine
<1>1. /\ \/ - refresh_amt + n > max_row + 1 /\ FlushThen(-n)
         \/ - refresh_amt + n <= max_row + 1 /\ scroll_amt <= 0 /\ Postpone(-n, -n)
         \/ /\ win' = Opened(Flushed, cur_row, bot_marg, n, n)
            /\ savedlines' = FlushedSaved /\ scroll_amt' = 0 /\ refresh_amt' = 0
      /\ buf' = Inserted(cur_row, n)
  BY <1>0 DEF InsertLine, PendingInv
<1> HIDE DEF n
<1>2. buf' \in Buffers
  BY <1>0, <1>1, ChangedBuffers DEF Row
<1>3. CASE FlushThen(-n)
  <2>1. -n \in (-max_row - 1)..(max_row + 1)
    BY <1>0
  <2> QED BY <1>2, <1>3, <2>1, TypeFlushThen DEF LinesInv
<1>4. CASE - refresh_amt + n <= max_row + 1 /\ scroll_amt <= 0 /\ Postpone(-n, -n)
  BY <1>0, <1>2, <1>4 DEF Postpone, LinesInv, PendingInv
<1>5. CASE /\ win' = Opened(Flushed, cur_row, bot_marg, n, n)
           /\ savedlines' = FlushedSaved /\ scroll_amt' = 0 /\ refresh_amt' = 0
  <2>1. win' \in Windows
    BY <1>0, <1>5, TypeFlush, OpenedAt DEF FlushedAt, Row
  <2> QED BY <1>0, <1>2, <1>5, <2>1, TypeFlush DEF LinesInv, PendingInv
<1> QED BY <1>1, <1>3, <1>4, <1>5

LEMMA TypeClosed ==
  ASSUME TypeInv, InRegion, NEW w \in Windows, NEW n \in 1..(bot_marg - cur_row + 1)
  PROVE  Closed(w, n) \in Windows
<1> DEFINE end    == max_row - n + 1
           still  == bot_marg - cur_row + 1 - n
           hidden == Larger(bot_marg - bot, 0)
           saves  == scrollWidget /\ cur_row = 0
           above  == IF saves \/ hidden = 0 THEN 0 ELSE Larger(cur_row + n - 1 - bot, 0)
           moved  == IF saves THEN Copy(w, n, Smaller(still + shift, end), n)
                              ELSE Copy(w, cur_row + shift + n, still - hidden, n)
           first  == Smaller(bot_marg - n + 1 + shift, end)
<1>0. /\ max_row \in Nat /\ cur_row \in 0..max_row /\ bot_marg \in 0..max_row /\ n \in Int
      /\ shift \in Nat /\ bot \in Int
  BY FromCursor, TypeFlush DEF Placed
<1>1. /\ end \in Int /\ first \in Int /\ hidden \in Int /\ above \in Int /\ still \in Int
      /\ Smaller(still + shift, end) \in Int
  BY <1>0 DEF Smaller, Larger
<1>2. moved \in Windows
  BY <1>0, <1>1, CopyAt
<1>3. Closed(w, n) = Wipe(moved, first, n - above)
  BY DEF Closed
<1> HIDE DEF end, first, hidden, above, moved, still, saves
<1> QED BY <1>0, <1>1, <1>2, <1>3, WipeAt

LEMMA TypeDeleteLine ==
  ASSUME TypeInv, NEW count \in Nat \ {0}, DeleteLine(count)
  PROVE  LinesInv'
<1> DEFINE n == Smaller(count, bot_marg - cur_row + 1)
<1>0. /\ n \in 1..(bot_marg - cur_row + 1) /\ max_row \in Nat /\ InRegion
      /\ cur_row \in 0..max_row /\ bot_marg \in 0..max_row
      /\ Placed /\ LinesInv /\ PendingInv
  BY FromCursor, TypeFlush, TypeParts DEF LinesInv, DeleteLine
<1>1. /\ \/ refresh_amt + n > max_row + 1 /\ FlushThen(n)
         \/ refresh_amt + n <= max_row + 1 /\ scroll_amt >= 0 /\ Postpone(n, n)
         \/ /\ win' = Closed(Flushed, n)
            /\ savedlines' = Counted(FlushedSaved, cur_row, n)
            /\ scroll_amt' = 0 /\ refresh_amt' = 0
      /\ buf' = Deleted(cur_row, n)
  BY <1>0 DEF DeleteLine, PendingInv
<1> HIDE DEF n
<1>2. buf' \in Buffers
  BY <1>0, <1>1, ChangedBuffers DEF Row
<1>3. CASE FlushThen(n)
  <2>1. n \in (-max_row - 1)..(max_row + 1)
    BY <1>0
  <2> QED BY <1>2, <1>3, <2>1, TypeFlushThen DEF LinesInv
<1>4. CASE refresh_amt + n <= max_row + 1 /\ scroll_amt >= 0 /\ Postpone(n, n)
  BY <1>0, <1>2, <1>4 DEF Postpone, LinesInv, PendingInv
<1>5. CASE /\ win' = Closed(Flushed, n)
           /\ savedlines' = Counted(FlushedSaved, cur_row, n)
           /\ scroll_amt' = 0 /\ refresh_amt' = 0
  <2>1. win' \in Windows
    BY <1>0, <1>5, TypeFlush, TypeClosed DEF FlushedAt
  <2>2. savedlines' \in 0..savelines
    BY <1>0, <1>5, TypeFlush, TypeCounted
  <2> QED BY <1>0, <1>2, <1>5, <2>1, <2>2 DEF LinesInv, PendingInv
<1> QED BY <1>1, <1>3, <1>4, <1>5

\* Text that waits for a flush is one more row at most.
LEMMA TypeAdd ==
  ASSUME TypeInv
  PROVE  /\ AddToRefresh \in (-max_row - 1)..(max_row + 1)
         /\ scroll_amt > 0 => AddToRefresh >= scroll_amt
         /\ scroll_amt < 0 => AddToRefresh <= scroll_amt
         /\ scroll_amt = 0 => AddToRefresh = 0
<1>0. /\ PendingInv /\ max_row \in Nat /\ cur_row \in 0..max_row
      /\ top_marg \in 0..max_row /\ bot_marg \in 0..max_row
  BY TypeFlush, TypeParts DEF Placed, LinesInv, PlaceInv, Row
<1> QED BY <1>0 DEF AddToRefresh, Edge, PendingInv

LEMMA TypeDrawn ==
  ASSUME TypeInv, Visible, NEW w \in Windows, NEW line \in Line
  PROVE  Drawn(w, line) \in Windows
<1>1. cur_row + shift \in Row
  BY TypeFlush, TypeParts DEF Visible, Placed, PlaceInv, Row
<1> QED BY <1>1 DEF Drawn, Windows

LEMMA TypeWrite ==
  ASSUME TypeInv, NEW line \in Line, Write(line)
  PROVE  LinesInv'
<1>0. Placed /\ LinesInv /\ PendingInv /\ PlaceInv /\ max_row \in Nat
  BY TypeFlush, TypeParts DEF LinesInv, Placed
<1>1. buf' \in Buffers
  BY <1>0, ChangedBuffers DEF Write, Placed, PlaceInv
<1>2. CASE ~Visible
  BY <1>0, <1>1, <1>2 DEF Write, LinesInv, PendingInv
<1>3. CASE Visible /\ Covered
  BY <1>0, <1>1, <1>3, TypeAdd DEF Write, LinesInv, PendingInv
<1>4. CASE Visible /\ ~Covered
  <2>1. /\ win' = Drawn(Flushed, line) /\ savedlines' = FlushedSaved
        /\ scroll_amt' = 0 /\ refresh_amt' = 0
    BY <1>4 DEF Write
  <2>2. win' \in Windows
    BY <1>4, <2>1, TypeFlush, TypeDrawn DEF FlushedAt
  <2> QED BY <1>0, <1>1, <2>1, <2>2, TypeFlush DEF LinesInv, PendingInv
<1> QED BY <1>2, <1>3, <1>4

\* The window of ClearBelow before what is below is cleared.
LEMMA AddAt ==
  ASSUME TypeInv, NEW b \in Buffers
  PROVE  FlushedAt(FlushedWith(b, AddToRefresh, top_marg, bot_marg), b, AddToRefresh,
                   top_marg, bot_marg)
BY TypeAdd, TypeFlush, FlushAt DEF Placed

LEMMA TypeClearBelow ==
  ASSUME TypeInv, NEW line \in Line, ClearBelow(line)
  PROVE  LinesInv'
<1> DEFINE written == [buf EXCEPT ![cur_row] = line]
           w       == IF Covered THEN FlushedWith(written, AddToRefresh, top_marg, bot_marg)
                                 ELSE Drawn(Flushed, line)
           row     == cur_row + shift + 1
<1>0. /\ Placed /\ LinesInv /\ PendingInv /\ PlaceInv /\ max_row \in Nat
      /\ cur_row \in Int /\ shift \in Nat /\ buf \in Buffers /\ cur_row \in Row
  BY TypeFlush, TypeParts DEF LinesInv, Placed, PlaceInv, Row
<1>1. buf' \in Buffers
  <2>1. Erased(cur_row + 1, max_row) \in Buffers
    BY <1>0, ChangedBuffers
  <2> QED BY <1>0, <2>1, ChangedBuffers DEF ClearBelow
<1>2. CASE ~Visible
  BY <1>0, <1>1, <1>2 DEF ClearBelow, LinesInv, PendingInv
<1>3. CASE Visible
  <2>1. written \in Buffers
    BY <1>0, ChangedBuffers
  <2>2. w \in Windows
    <3>1. FlushedWith(written, AddToRefresh, top_marg, bot_marg) \in Windows
      BY <2>1, AddAt DEF FlushedAt
    <3>2. Drawn(Flushed, line) \in Windows
      BY <1>3, TypeFlush, TypeDrawn DEF FlushedAt
    <3> QED BY <3>1, <3>2
  <2>3. /\ win' = Wipe(w, row, max_row - row + 1) /\ savedlines' = FlushedSaved
        /\ scroll_amt' = 0 /\ refresh_amt' = 0
    BY <1>3 DEF ClearBelow
  <2>4. row \in Int
    BY <1>0
  <2> HIDE DEF w, row
  <2>5. win' \in Windows
    BY <1>0, <2>2, <2>3, <2>4, WipeAt
  <2> QED BY <1>0, <1>1, <2>3, <2>5, TypeFlush DEF LinesInv, PendingInv
<1> QED BY <1>2, <1>3

LEMMA TypeClearAbove ==
  ASSUME TypeInv, NEW line \in Line, ClearAbove(line)
  PROVE  LinesInv'
<1> DEFINE size == Smaller(cur_row + shift, max_row) - shift
           w    == Wipe(Flushed, shift, size)
<1>0. /\ Placed /\ LinesInv /\ PendingInv /\ PlaceInv /\ max_row \in Nat
      /\ cur_row \in Int /\ shift \in Nat /\ buf \in Buffers /\ cur_row \in Row
  BY TypeFlush, TypeParts DEF LinesInv, Placed, PlaceInv, Row
<1>1. buf' \in Buffers
  <2>1. Erased(0, cur_row - 1) \in Buffers
    BY <1>0, ChangedBuffers
  <2>2. buf' = [Erased(0, cur_row - 1) EXCEPT ![cur_row] = line] \/ buf' = Erased(0, cur_row - 1)
    BY <1>0, <2>1 DEF ClearAbove, Buffers
  <2> QED BY <1>0, <2>1, <2>2, ChangedBuffers
<1>2. CASE shift > max_row
  BY <1>0, <1>1, <1>2 DEF ClearAbove, LinesInv, PendingInv
<1>3. CASE ~(shift > max_row)
  <2>1. size \in Int
    BY <1>0, Bounds
  <2>2. w \in Windows
    BY <1>0, <2>1, TypeFlush, WipeAt DEF FlushedAt
  <2>3. /\ win' = (IF Visible THEN Drawn(w, line) ELSE w) /\ savedlines' = FlushedSaved
        /\ scroll_amt' = 0 /\ refresh_amt' = 0
    BY <1>3 DEF ClearAbove
  <2> HIDE DEF w
  <2>4. win' \in Windows
    BY <2>2, <2>3, TypeDrawn
  <2> QED BY <1>0, <1>1, <2>3, <2>4, TypeFlush DEF LinesInv, PendingInv
<1> QED BY <1>2, <1>3

LEMMA TypeDECALN ==
  ASSUME TypeInv, NEW line \in Line, DECALN(line)
  PROVE  LinesInv'
<1> DEFINE filled == [r \in DOMAIN buf |-> IF r \in Row THEN line ELSE buf[r]]
           under  == [r \in Row |-> IF Source(r, scroll_amt) \in shift..max_row THEN Blank
                                    ELSE win[r]]
<1>0. Placed /\ LinesInv /\ PendingInv /\ max_row \in Nat /\ scroll_amt \in Int
  BY TypeFlush, TypeParts DEF LinesInv, Placed
<1>1. filled \in Buffers
  BY <1>0 DEF Placed, Buffers
<1>2. under \in Windows
  BY <1>0, LineAssumption DEF Placed, Windows
<1>3. /\ buf' = filled
      /\ win' = Refreshed(under, filled, 0, max_row + 1, scroll_amt, topline)
      /\ UNCHANGED <<savedlines, pending>>
  BY DEF DECALN
<1> HIDE DEF filled, under
<1>4. win' \in Windows
  BY <1>0, <1>1, <1>2, <1>3, RefreshedAt DEF Placed
<1> QED BY <1>0, <1>1, <1>3, <1>4 DEF LinesInv, PendingInv

LEMMA TypeWindowScroll ==
  ASSUME TypeInv, NEW t \in (-savelines)..0, WindowScroll(t)
  PROVE  LinesInv'
<1> DEFINE i     == topline - t
           lines == Smaller(IF i > 0 THEN i ELSE -i, max_row + 1)
           still == max_row - lines + 1
           moved == Copy(win, IF i > 0 THEN 0 ELSE lines, still, -i)
           first == IF i > 0 THEN 0 ELSE still
<1>0. /\ Placed /\ LinesInv /\ PendingInv /\ max_row \in Nat /\ scroll_amt \in Int
      /\ topline \in Int
  BY TypeFlush, TypeParts DEF LinesInv, Placed
<1>1. i \in Int /\ lines \in Int /\ still \in Int /\ first \in Int
  BY <1>0 DEF Smaller
<1>2. moved \in Windows
  BY <1>0, <1>1, CopyAt DEF Placed
<1>3. /\ win' = Refreshed(Wipe(moved, first, lines), buf, first, lines, scroll_amt, t)
      /\ UNCHANGED <<buf, savedlines, pending>>
  BY DEF WindowScroll
<1> HIDE DEF i, lines, still, moved, first
<1>4. Wipe(moved, first, lines) \in Windows
  BY <1>1, <1>2, WipeAt
<1>5. win' \in Windows
  BY <1>0, <1>1, <1>3, <1>4, RefreshedAt DEF Placed
<1> QED BY <1>0, <1>3, <1>5 DEF LinesInv, PendingInv

LEMMA TypeQuiet == TypeInv /\ Quiet => LinesInv'
BY TypeParts DEF Quiet, LinesInv, PendingInv

LEMMA TypeScrolls == TypeInv /\ Scrolls => LinesInv'
<1> SUFFICES ASSUME TypeInv, Scrolls PROVE LinesInv'
  OBVIOUS
<1>1. CASE xtermIndex
  BY <1>1, TypeScrollUp, TypeQuiet DEF xtermIndex
<1>2. CASE RevIndex
  BY <1>2, TypeScrollDown, TypeQuiet DEF RevIndex
<1>3. ASSUME NEW n \in Count, SU(n) \/ InsertLine(n) \/ DeleteLine(n) PROVE LinesInv'
  <2>1. n \in Nat \ {0}
    BY SizeAssumption
  <2> QED BY <1>3, <2>1, TypeScrollUp, TypeInsertLine, TypeDeleteLine DEF SU
<1> QED BY <1>1, <1>2, <1>3 DEF Scrolls

LEMMA TypeText == TypeInv /\ Text => LinesInv'
<1> SUFFICES ASSUME TypeInv, Text PROVE LinesInv'
  OBVIOUS
<1>1. CASE ClearScreen
  BY <1>1, TypeCleared, TypeFlush, TypeParts DEF ClearScreen, LinesInv, Placed
<1> QED BY <1>1, TypeWrite, TypeClearBelow, TypeClearAbove, TypeDECALN DEF Text

LEMMA TypeFlushed == TypeInv /\ FlushScroll /\ UNCHANGED buf => LinesInv'
<1> SUFFICES ASSUME TypeInv, FlushScroll, UNCHANGED buf PROVE LinesInv'
  OBVIOUS
<1>1. 0 \in (-max_row - 1)..(max_row + 1)
  BY SizeAssumption
<1> QED BY <1>1, TypeFlushThen, TypeParts DEF FlushScroll, LinesInv

LEMMA TypeModes == TypeInv /\ Modes => LinesInv'
<1> SUFFICES ASSUME TypeInv, Modes PROVE LinesInv'
  OBVIOUS
<1>1. CASE (\E row \in Row : CursorSet(row)) \/ DECSTR
  BY <1>1, TypeQuiet, TypeParts DEF CursorSet, DECSTR, LinesInv, PendingInv
<1>2. CASE \/ \E row \in Row : MemLock(row)
           \/ \E region \in Region : DECSTBM(region[1], region[2])
  BY <1>2, TypeFlushed DEF MemLock, DECSTBM
<1>3. CASE \E jump \in BOOLEAN : DECSCLM(jump)
  BY <1>3, TypeFlushed, TypeParts DEF DECSCLM, LinesInv, PendingInv
<1>4. CASE RIS
  <2>1. 0 \in Row /\ max_row \in Row /\ 0 <= max_row /\ 0 \in 0..savelines
    BY SizeAssumption DEF Row
  <2> QED BY <1>4, <2>1, TypeCleared DEF RIS
<1> QED BY <1>1, <1>2, <1>3, <1>4 DEF Modes

LEMMA TypeEvents == TypeInv /\ Events => LinesInv'
<1> SUFFICES ASSUME TypeInv, Events PROVE LinesInv'
  OBVIOUS
<1>1. CASE Flush
  BY <1>1, TypeFlushed DEF Flush
<1>2. CASE Drag
  <2>1. PICK t \in (-savedlines)..0 : WindowScroll(t)
    BY <1>2 DEF Drag
  <2>2. t \in (-savelines)..0
    BY TypeParts, SizeAssumption DEF LinesInv
  <2> QED BY <2>1, <2>2, TypeWindowScroll
<1>3. CASE Output
  <2>1. 0 \in (-savelines)..0
    BY SizeAssumption
  <2> QED BY <1>3, <2>1, TypeWindowScroll DEF Output
<1>4. CASE Expose
  <2>1. win' \in Windows
    BY <1>4, TypeFlush, SizeAssumption, RedrawnAt DEF Expose, Placed
  <2> QED BY <1>4, <2>1, TypeParts DEF Expose, LinesInv, PendingInv
<1> QED BY <1>1, <1>2, <1>3, <1>4 DEF Events

\* What the actions do to the cursor, the margins and the modes.
LEMMA PlaceNext == TypeInv /\ Next => PlaceInv'
<1> SUFFICES ASSUME TypeInv, Next PROVE PlaceInv'
  OBVIOUS
<1> USE DEF PlaceInv, Fixed, Quiet, Spoils
<1>0. PlaceInv /\ max_row \in Nat /\ Row = 0..max_row /\ savedlines \in 0..savelines
      /\ 0 \in Row /\ max_row \in Row /\ savelines \in Nat
  BY TypeParts, SizeAssumption DEF LinesInv, Row
<1>1. CASE Scrolls
  <2>1. CASE xtermIndex
    BY <1>0, <2>1, TypeScrollUp DEF xtermIndex, Smaller
  <2>2. CASE RevIndex
    BY <1>0, <2>2, TypeScrollDown DEF RevIndex, Larger
  <2>3. ASSUME NEW n \in Count, SU(n) \/ InsertLine(n) \/ DeleteLine(n) PROVE PlaceInv'
    <3>1. n \in Nat \ {0}
      BY SizeAssumption
    <3> QED BY <1>0, <2>3, <3>1, TypeScrollUp DEF SU, InsertLine, DeleteLine
  <2> QED BY <1>1, <2>1, <2>2, <2>3 DEF Scrolls
<1>2. CASE Text
  BY <1>0, <1>2 DEF Text, Write, ClearBelow, ClearAbove, DECALN, ClearScreen
<1>3. CASE Modes
  <2>1. CASE \E row \in Row : CursorSet(row) \/ MemLock(row)
    BY <1>0, <2>1 DEF CursorSet, MemLock
  <2>2. CASE \E region \in Region : DECSTBM(region[1], region[2])
    <3>1. PICK region \in Region : DECSTBM(region[1], region[2])
      BY <2>2
    <3>2. region[1] \in Row /\ region[2] \in Row
      BY RegionAssumption DEF Row
    <3> QED BY <1>0, <3>1, <3>2 DEF DECSTBM
  <2>3. CASE \E jump \in BOOLEAN : DECSCLM(jump)
    BY <1>0, <2>3 DEF DECSCLM
  <2>4. CASE DECSTR \/ RIS
    <3>1. /\ UNCHANGED <<topline, scrollWidget>> /\ jumpscroll' \in BOOLEAN
          /\ top_marg' = 0 /\ bot_marg' = max_row /\ cur_row' \in {0, cur_row}
      BY <1>0, <2>4 DEF DECSTR, RIS
    <3>2. spoiled' \in BOOLEAN
      BY <2>4, Zenon DEF DECSTR, RIS
    <3> QED BY <1>0, <3>1, <3>2
  <2> QED BY <1>3, <2>1, <2>2, <2>3, <2>4 DEF Modes
<1>4. CASE Events
  <2>1. CASE Flush \/ Expose
    BY <1>0, <2>1 DEF Flush, Expose
  <2>2. ASSUME NEW t \in (-savelines)..0, WindowScroll(t) PROVE PlaceInv'
    <3>1. spoiled' \in BOOLEAN
      BY <2>2, Zenon DEF WindowScroll
    <3>2. topline' = t /\ UNCHANGED <<cur_row, margins, jumpscroll, scrollWidget>>
      BY <2>2 DEF WindowScroll
    <3> QED BY <1>0, <3>1, <3>2
  <2>3. CASE Drag
    <3>1. PICK t \in (-savedlines)..0 : WindowScroll(t)
      BY <2>3 DEF Drag
    <3>2. t \in (-savelines)..0
      BY <1>0
    <3> QED BY <2>2, <3>1, <3>2
  <2>4. CASE Output
    <3>1. 0 \in (-savelines)..0
      BY <1>0
    <3> QED BY <2>2, <2>4, <3>1 DEF Output
  <2> QED BY <1>4, <2>1, <2>2, <2>3, <2>4 DEF Events
<1> QED BY <1>1, <1>2, <1>3, <1>4 DEF Next

LEMMA TypeNext == TypeInv /\ [Next]_vars => TypeInv'
<1>1. TypeInv /\ Next => LinesInv'
  BY TypeScrolls, TypeText, TypeModes, TypeEvents DEF Next
<1>2. TypeInv /\ Next => TypeInv'
  BY <1>1, PlaceNext, TypeParts, PTL
<1>3. TypeInv /\ UNCHANGED vars => TypeInv'
  BY DEF TypeInv, TypeOK
<1> QED BY <1>2, <1>3

LEMMA TypeInit == Init => TypeInv
<1> SUFFICES ASSUME Init PROVE TypeInv
  OBVIOUS
<1>1. LinesInv
  BY LineAssumption, SizeAssumption DEF Init, LinesInv, PendingInv, Buffers, Windows
<1>2. PlaceInv
  <2>1. 0 \in (-savelines)..0 /\ 0 \in Row /\ max_row \in Row /\ 0 <= max_row
    BY SizeAssumption DEF Row
  <2>2. jumpscroll \in BOOLEAN /\ scrollWidget \in BOOLEAN /\ spoiled \in BOOLEAN
    BY DEF Init
  <2> QED BY <2>1, <2>2 DEF Init, PlaceInv
<1> QED BY <1>1, <1>2, TypeParts

LEMMA TypeAlways == Spec => []TypeInv
BY TypeInit, TypeNext, PTL DEF Spec

-----------------------------------------------------------------------------
(* The window shows the buffer, but for what the next flush will do.       *)

FreshRow(r) == Fresh(r, refresh_amt, top_marg, bot_marg)
MovedRow(r) == Moved(r, refresh_amt, top_marg, bot_marg)

\* What the flush moves is already in the window, and what it leaves alone is
\* right: WindowTrue without the flush.
Shown ==
  \A r \in Row :
    /\ MovedRow(r) => win[r + scroll_amt] = buf[r + topline]
    /\ ~MovedRow(r) /\ ~FreshRow(r) => win[r] = buf[r + topline]

IInv ==
  /\ TypeInv
  /\ ~spoiled => Shown /\ (jumpscroll \/ scroll_amt = 0)

\* A window shows buffer b.
Shows(w, b) == \A r \in Row : w[r] = b[r + topline]

\* The numbers that the arithmetic is about.
Numbers ==
  /\ max_row \in Nat /\ savelines \in Nat /\ shift \in 0..savelines
  /\ bot = max_row - shift /\ topline = -shift
  /\ scroll_amt \in Int /\ refresh_amt \in Int
  /\ top_marg \in 0..max_row /\ bot_marg \in 0..max_row /\ top_marg <= bot_marg
  /\ cur_row \in 0..max_row
  /\ scroll_amt > 0 => refresh_amt >= scroll_amt
  /\ scroll_amt < 0 => refresh_amt <= scroll_amt
  /\ scroll_amt = 0 => refresh_amt = 0

LEMMA TypeNumbers == TypeInv => Numbers
BY TypeFlush, TypeParts, SizeAssumption
   DEF Numbers, Placed, LinesInv, PendingInv, PlaceInv, Row

LEMMA Disjoint == ASSUME Numbers, NEW r \in Int PROVE ~(MovedRow(r) /\ FreshRow(r))
<1>1. CASE scroll_amt > 0
  <2>1. FirstDrawn(refresh_amt, bot_marg) \in Int
    BY DEF Numbers, FirstDrawn, Smaller
  <2> QED BY <1>1, <2>1 DEF Numbers, MovedRow, FreshRow, Moved, Fresh
<1>2. CASE ~(scroll_amt > 0)
  BY <1>2 DEF Numbers, MovedRow, FreshRow, Moved, Fresh
<1> QED BY <1>1, <1>2

LEMMA ShownFlushed == ASSUME TypeInv PROVE Shown <=> Shows(Flushed, buf)
<1>1. \A r \in Row : Flushed[r] = IF FreshRow(r) THEN buf[r + topline]
                                  ELSE IF MovedRow(r) THEN win[r + scroll_amt] ELSE win[r]
  BY TypeFlush DEF FlushedAt, FreshRow, MovedRow
<1>2. \A r \in Row : ~(MovedRow(r) /\ FreshRow(r))
  BY TypeNumbers, Disjoint DEF Row
<1> QED BY <1>1, <1>2 DEF Shown, Shows

LEMMA ShownWindow ==
  ASSUME TypeInv
  PROVE  Shows(Flushed, buf) <=> Flushed = [r \in Row |-> buf[r + topline]]
<1>1. Flushed \in [Row -> Line \cup {Garbled}]
  BY TypeFlush DEF FlushedAt, Windows
<1> QED BY <1>1 DEF Shows

\* Nothing is pending.
LEMMA NothingPending ==
  ASSUME scroll_amt = 0
  PROVE  /\ \A r : ~FreshRow(r) /\ ~MovedRow(r)
         /\ Flushed = win
         /\ Shown <=> Shows(win, buf)
<1>1. \A r : ~FreshRow(r) /\ ~MovedRow(r)
  BY DEF FreshRow, MovedRow, Fresh, Moved
<1>2. Flushed = win
  BY DEF Flushed, FlushedWith
<1> QED BY <1>1, <1>2 DEF Shown, Shows

LEMMA ShownAfter ==
  ASSUME scroll_amt' = 0, \A r \in Row : win'[r] = buf'[r + topline']
  PROVE  Shown'
<1>1. (\A r \in Row : ~FreshRow(r) /\ ~MovedRow(r))'
  BY DEF FreshRow, MovedRow, Fresh, Moved
<1> QED BY <1>1 DEF Shown, Row

\* The same, after a step that does not touch what the window depends on.
LEMMA ShownKept ==
  ASSUME Shown, UNCHANGED <<buf, win, topline, pending, margins, scrollWidget>>
  PROVE  Shown'
BY DEF Shown, FreshRow, MovedRow, Fresh, Moved, FirstDrawn, shift, bot, Row

-----------------------------------------------------------------------------
(* Scrolls of the region.                                                  *)

LEMMA DeletedAt ==
  ASSUME Numbers, NEW where \in Row, NEW n \in Nat, NEW r \in Row, buf \in Buffers
  PROVE  Deleted(where, n)[r + topline]
           = IF ((scrollWidget /\ where = 0) \/ r >= where + shift) /\ r + n <= bot_marg + shift
             THEN buf[r + n + topline]
             ELSE IF ((scrollWidget /\ where = 0) \/ r >= where + shift) /\ r <= bot_marg + shift
             THEN Blank ELSE buf[r + topline]
<1> DEFINE from == IF scrollWidget /\ where = 0 THEN -savelines ELSE where
           x    == r + topline
<1>0. r \in 0..max_row /\ where \in 0..max_row
  BY DEF Row
<1>1. x \in (-savelines)..max_row /\ DOMAIN buf = (-savelines)..max_row /\ x + n = r + n + topline
  BY <1>0 DEF Numbers, Buffers
<1>2. Deleted(where, n)[x] = IF x \in from..(bot_marg - n) THEN buf[x + n]
                             ELSE IF x \in from..bot_marg THEN Blank ELSE buf[x]
  BY <1>1 DEF Deleted
<1>3. /\ x \in from..(bot_marg - n)
           <=> ((scrollWidget /\ where = 0) \/ r >= where + shift) /\ r + n <= bot_marg + shift
      /\ x \in from..bot_marg
           <=> ((scrollWidget /\ where = 0) \/ r >= where + shift) /\ r <= bot_marg + shift
  BY <1>0 DEF Numbers
<1> HIDE DEF from
<1> QED BY <1>1, <1>2, <1>3

LEMMA InsertedAt ==
  ASSUME Numbers, NEW where \in Row, NEW n \in Nat, NEW r \in Row, buf \in Buffers
  PROVE  Inserted(where, n)[r + topline]
           = IF r \in (where + shift + n)..(bot_marg + shift) THEN buf[r - n + topline]
             ELSE IF r \in (where + shift)..(bot_marg + shift) THEN Blank ELSE buf[r + topline]
<1> DEFINE x == r + topline
<1>0. r \in 0..max_row /\ where \in 0..max_row
  BY DEF Row
<1>1. x \in (-savelines)..max_row /\ DOMAIN buf = (-savelines)..max_row /\ x - n = r - n + topline
  BY <1>0 DEF Numbers, Buffers
<1>2. Inserted(where, n)[x] = IF x \in (where + n)..bot_marg THEN buf[x - n]
                              ELSE IF x \in where..bot_marg THEN Blank ELSE buf[x]
  BY <1>1 DEF Inserted
<1>3. /\ x \in (where + n)..bot_marg <=> r \in (where + shift + n)..(bot_marg + shift)
      /\ x \in where..bot_marg <=> r \in (where + shift)..(bot_marg + shift)
  BY <1>0 DEF Numbers
<1> QED BY <1>1, <1>2, <1>3

\* The rows that the region covers in the window, from the top if lines of it are
\* saved.
From(where, r) == (scrollWidget /\ where = 0) \/ r >= where + shift

\* A scroll up of n rows after a flush.
LEMMA ShownFlushUp ==
  ASSUME TypeInv, Shown, NEW n \in 1..Height, FlushThen(n), buf' = Deleted(top_marg, n),
         UNCHANGED <<topline, margins, scrollWidget>>
  PROVE  Shown'
<1>0. Numbers /\ buf \in Buffers /\ top_marg \in Row
  BY TypeNumbers, TypeParts DEF LinesInv, PlaceInv
<1>1. Shows(Flushed, buf)
  BY ShownFlushed
<1>2. win' = Flushed /\ scroll_amt' = n /\ refresh_amt' = n
  BY DEF FlushThen
<1>3. shift' = shift /\ bot' = bot /\ Row' = Row
  BY DEF shift, bot, Row
<1> SUFFICES ASSUME NEW r \in Row
             PROVE  /\ MovedRow(r)' => win'[r + n] = buf'[r + topline]
                    /\ ~MovedRow(r)' /\ ~FreshRow(r)' => win'[r] = buf'[r + topline]
  BY <1>2, <1>3 DEF Shown
<1>4. r \in 0..max_row /\ n \in Nat /\ n >= 1
  BY <1>0 DEF Row, Height, Numbers
<1>5. CASE MovedRow(r)'
  <2>1. From(top_marg, r) /\ r + n <= bot_marg + shift /\ r + n \in Row
    BY <1>0, <1>2, <1>3, <1>4, <1>5
       DEF MovedRow, Moved, FirstDrawn, Smaller, Numbers, From, Row
  <2>2. buf'[r + topline] = buf[r + n + topline]
    BY <1>0, <1>4, <2>1, DeletedAt DEF From
  <2>3. win'[r + n] = buf[r + n + topline]
    BY <1>1, <1>2, <2>1 DEF Shows
  <2>4. ~(~MovedRow(r)' /\ ~FreshRow(r)')
    BY <1>5
  <2> QED BY <2>2, <2>3, <2>4
<1>6. CASE ~MovedRow(r)' /\ ~FreshRow(r)'
  <2>1. ~From(top_marg, r) \/ r > bot_marg + shift
    BY <1>0, <1>2, <1>3, <1>4, <1>6
       DEF MovedRow, Moved, FreshRow, Fresh, FirstDrawn, Smaller, Numbers, From
  <2>2. buf'[r + topline] = buf[r + topline]
    <3>1. ~From(top_marg, r) \/ (~(r <= bot_marg + shift) /\ ~(r + n <= bot_marg + shift))
      BY <1>0, <1>4, <2>1 DEF Numbers
    <3> QED BY <1>0, <1>4, <3>1, DeletedAt DEF From
  <2>3. win'[r] = buf[r + topline]
    BY <1>1, <1>2 DEF Shows
  <2> QED BY <1>6, <2>2, <2>3
<1> QED BY <1>5, <1>6

\* A scroll up of n rows that joins those that wait.
LEMMA ShownPostponeUp ==
  ASSUME TypeInv, Shown, scroll_amt > 0, NEW n \in 1..Height, Postpone(n, n),
         buf' = Deleted(top_marg, n), UNCHANGED <<topline, margins, scrollWidget>>
  PROVE  Shown'
<1>0. Numbers /\ buf \in Buffers /\ top_marg \in Row
  BY TypeNumbers, TypeParts DEF LinesInv, PlaceInv
<1>2. win' = win /\ scroll_amt' = scroll_amt + n /\ refresh_amt' = refresh_amt + n
  BY DEF Postpone
<1>3. shift' = shift /\ bot' = bot /\ Row' = Row
  BY DEF shift, bot, Row
<1> SUFFICES ASSUME NEW r \in Row
             PROVE  /\ MovedRow(r)' => win[r + (scroll_amt + n)] = buf'[r + topline]
                    /\ ~MovedRow(r)' /\ ~FreshRow(r)' => win[r] = buf'[r + topline]
  BY <1>2, <1>3 DEF Shown
<1>4. r \in 0..max_row /\ n \in Nat /\ n >= 1
  BY <1>0 DEF Row, Height, Numbers
<1>5. CASE MovedRow(r)'
  <2>1. /\ From(top_marg, r) /\ r + n <= bot_marg + shift /\ r + n \in Row
        /\ MovedRow(r + n)
        /\ r + n + scroll_amt = r + (scroll_amt + n)
    BY <1>0, <1>2, <1>3, <1>4, <1>5
       DEF MovedRow, Moved, FirstDrawn, Smaller, Numbers, From, Row
  <2>2. buf'[r + topline] = buf[r + n + topline]
    BY <1>0, <1>4, <2>1, DeletedAt DEF From
  <2>3. win[r + n + scroll_amt] = buf[r + n + topline]
    BY <2>1 DEF Shown
  <2> QED BY <1>5, <2>1, <2>2, <2>3
<1>6. CASE ~MovedRow(r)' /\ ~FreshRow(r)'
  <2>1. /\ ~From(top_marg, r) \/ r > bot_marg + shift
        /\ ~MovedRow(r) /\ ~FreshRow(r)
    BY <1>0, <1>2, <1>3, <1>4, <1>6
       DEF MovedRow, Moved, FreshRow, Fresh, FirstDrawn, Smaller, Numbers, From
  <2>2. buf'[r + topline] = buf[r + topline]
    <3>1. ~From(top_marg, r) \/ (~(r <= bot_marg + shift) /\ ~(r + n <= bot_marg + shift))
      BY <1>0, <1>4, <2>1 DEF Numbers
    <3> QED BY <1>0, <1>4, <3>1, DeletedAt DEF From
  <2>3. win[r] = buf[r + topline]
    BY <2>1 DEF Shown
  <2> QED BY <1>6, <2>2, <2>3
<1> QED BY <1>5, <1>6

\* The same down.
LEMMA ShownFlushDown ==
  ASSUME TypeInv, Shown, NEW n \in 1..Height, FlushThen(-n), buf' = Inserted(top_marg, n),
         UNCHANGED <<topline, margins, scrollWidget>>
  PROVE  Shown'
<1>0. Numbers /\ buf \in Buffers /\ top_marg \in Row
  BY TypeNumbers, TypeParts DEF LinesInv, PlaceInv
<1>1. Shows(Flushed, buf)
  BY ShownFlushed
<1>2. win' = Flushed /\ scroll_amt' = -n /\ refresh_amt' = -n
  BY DEF FlushThen
<1>3. shift' = shift /\ bot' = bot /\ Row' = Row
  BY DEF shift, bot, Row
<1> SUFFICES ASSUME NEW r \in Row
             PROVE  /\ MovedRow(r)' => win'[r + (-n)] = buf'[r + topline]
                    /\ ~MovedRow(r)' /\ ~FreshRow(r)' => win'[r] = buf'[r + topline]
  BY <1>2, <1>3 DEF Shown
<1>4. r \in 0..max_row /\ n \in Nat /\ n >= 1 /\ r + (-n) = r - n
  BY <1>0 DEF Row, Height, Numbers
<1>5. CASE MovedRow(r)'
  <2>1. r \in (top_marg + shift + n)..(bot_marg + shift) /\ r - n \in Row
    BY <1>0, <1>2, <1>3, <1>4, <1>5 DEF MovedRow, Moved, Numbers, Row
  <2>2. buf'[r + topline] = buf[r - n + topline]
    BY <1>0, <1>4, <2>1, InsertedAt
  <2>3. win'[r - n] = buf[r - n + topline]
    BY <1>1, <1>2, <2>1 DEF Shows
  <2> QED BY <1>4, <1>5, <2>2, <2>3
<1>6. CASE ~MovedRow(r)' /\ ~FreshRow(r)'
  <2>1. /\ r \notin (top_marg + shift + n)..(bot_marg + shift)
        /\ r \notin (top_marg + shift)..(bot_marg + shift)
    BY <1>0, <1>2, <1>3, <1>4, <1>6 DEF MovedRow, Moved, FreshRow, Fresh, Numbers
  <2>2. buf'[r + topline] = buf[r + topline]
    BY <1>0, <1>4, <2>1, InsertedAt
  <2>3. win'[r] = buf[r + topline]
    BY <1>1, <1>2 DEF Shows
  <2> QED BY <1>6, <2>2, <2>3
<1> QED BY <1>5, <1>6

\* Scrolls down join those that wait if the lines are opened in the rows that the
\* flush draws or right below them.
LEMMA ShownPostponeDown ==
  ASSUME TypeInv, Shown, scroll_amt <= 0, NEW where \in top_marg..bot_marg,
         where <= top_marg - refresh_amt, NEW n \in 1..(bot_marg - where + 1), Postpone(-n, -n),
         buf' = Inserted(where, n), UNCHANGED <<topline, margins, scrollWidget>>
  PROVE  Shown'
<1>0. Numbers /\ buf \in Buffers /\ where \in Row
  <2>1. Numbers /\ buf \in Buffers
    BY TypeNumbers, TypeParts DEF LinesInv
  <2> QED BY <2>1 DEF Numbers, Row
<1>2. win' = win /\ scroll_amt' = scroll_amt + (-n) /\ refresh_amt' = refresh_amt + (-n)
  BY DEF Postpone
<1>3. shift' = shift /\ bot' = bot /\ Row' = Row
  BY DEF shift, bot, Row
<1> SUFFICES ASSUME NEW r \in Row
             PROVE  /\ MovedRow(r)' => win[r + (scroll_amt + (-n))] = buf'[r + topline]
                    /\ ~MovedRow(r)' /\ ~FreshRow(r)' => win[r] = buf'[r + topline]
  BY <1>2, <1>3 DEF Shown
<1>4. r \in 0..max_row /\ n \in Nat /\ n >= 1
  BY <1>0 DEF Row, Numbers
<1>5. CASE MovedRow(r)'
  <2>1. /\ r \in (where + shift + n)..(bot_marg + shift) /\ r - n \in Row
        /\ MovedRow(r - n) \/ (scroll_amt = 0 /\ ~MovedRow(r - n) /\ ~FreshRow(r - n))
        /\ r - n + scroll_amt = r + (scroll_amt + (-n))
    BY <1>0, <1>2, <1>3, <1>4, <1>5 DEF MovedRow, Moved, FreshRow, Fresh, Numbers, Row
  <2>2. buf'[r + topline] = buf[r - n + topline]
    BY <1>0, <1>4, <2>1, InsertedAt
  <2>3. win[r - n + scroll_amt] = buf[r - n + topline]
    <3>1. scroll_amt = 0 => r - n + scroll_amt = r - n
      BY <1>4
    <3> QED BY <2>1, <3>1 DEF Shown
  <2> QED BY <1>5, <2>1, <2>2, <2>3
<1>6. CASE ~MovedRow(r)' /\ ~FreshRow(r)'
  <2>1. /\ r \notin (where + shift + n)..(bot_marg + shift)
        /\ r \notin (where + shift)..(bot_marg + shift)
        /\ ~MovedRow(r) /\ ~FreshRow(r)
    BY <1>0, <1>2, <1>3, <1>4, <1>6 DEF MovedRow, Moved, FreshRow, Fresh, Numbers
  <2>2. buf'[r + topline] = buf[r + topline]
    BY <1>0, <1>4, <2>1, InsertedAt
  <2>3. win[r] = buf[r + topline]
    BY <2>1 DEF Shown
  <2> QED BY <1>6, <2>2, <2>3
<1> QED BY <1>5, <1>6

\* Lines opened in the window as in the buffer.
LEMMA OpenedShows ==
  ASSUME TypeInv, NEW w \in Windows, Shows(w, buf), NEW where \in Row, NEW n \in Nat,
         where + n <= bot_marg + 1, NEW r \in Row
  PROVE  Opened(w, where, bot_marg, n, n)[r] = Inserted(where, n)[r + topline]
<1>0. Numbers /\ Placed /\ buf \in Buffers /\ bot_marg \in Row /\ n \in 0..n
      /\ r \in 0..max_row /\ where \in 0..max_row
  BY TypeNumbers, TypeFlush DEF Placed, Row
<1>1. Opened(w, where, bot_marg, n, n)[r]
        = IF r \in (where + shift)..(where + shift + n - 1) THEN Blank
          ELSE IF r \in (where + shift + n)..(bot_marg + shift) THEN w[r - n] ELSE w[r]
  BY <1>0, OpenedAt
<1>2. Inserted(where, n)[r + topline]
        = IF r \in (where + shift + n)..(bot_marg + shift) THEN buf[r - n + topline]
          ELSE IF r \in (where + shift)..(bot_marg + shift) THEN Blank ELSE buf[r + topline]
  BY <1>0, InsertedAt
<1>3. w[r] = buf[r + topline]
  BY DEF Shows
<1>4. r \in (where + shift + n)..(bot_marg + shift) => w[r - n] = buf[r - n + topline]
  <2>1. r \in (where + shift + n)..(bot_marg + shift) => r - n \in Row
    BY <1>0 DEF Numbers, Row
  <2> QED BY <2>1 DEF Shows
<1>5. CASE r \in (where + shift + n)..(bot_marg + shift)
  <2>1. r \notin (where + shift)..(where + shift + n - 1)
    BY <1>0, <1>5 DEF Numbers
  <2> QED BY <1>1, <1>2, <1>4, <1>5, <2>1
<1>6. CASE r \notin (where + shift + n)..(bot_marg + shift)
  <2>1. CASE r \in (where + shift)..(where + shift + n - 1)
    <3>1. r \in (where + shift)..(bot_marg + shift)
      BY <1>0, <2>1 DEF Numbers
    <3> QED BY <1>1, <1>2, <1>6, <2>1, <3>1
  <2>2. CASE r \notin (where + shift)..(where + shift + n - 1)
    <3>1. r \notin (where + shift)..(bot_marg + shift)
      BY <1>0, <1>6, <2>2 DEF Numbers
    <3> QED BY <1>1, <1>2, <1>3, <1>6, <2>2, <3>1
  <2> QED BY <2>1, <2>2
<1> QED BY <1>5, <1>6

\* The rows that a scroll up by n moves, where nothing waits.
MovedUp(w, where, n) ==
  IF scrollWidget /\ where = 0
  THEN Copy(w, n, Smaller(bot_marg - where + 1 - n + shift, max_row - n + 1), n)
  ELSE Copy(w, where + shift + n, bot_marg - where + 1 - n - Larger(bot_marg - bot, 0), n)

LEMMA MovedUpAt ==
  ASSUME Placed, Numbers, NEW w \in Windows, NEW where \in Row, where <= bot_marg,
         NEW n \in 1..(bot_marg - where + 1)
  PROVE  /\ MovedUp(w, where, n) \in Windows
         /\ \A r \in Row : MovedUp(w, where, n)[r]
              = IF From(where, r) /\ r + n <= bot_marg + shift /\ r + n <= max_row
                THEN w[r + n] ELSE w[r]
<1>0. n \in Nat /\ where \in 0..max_row /\ n >= 1
  BY DEF Numbers, Row
<1>1. CASE scrollWidget /\ where = 0
  <2> DEFINE count == Smaller(bot_marg - where + 1 - n + shift, max_row - n + 1)
  <2>1. count \in Int
    BY <1>0 DEF Numbers, Smaller
  <2>2. /\ Copy(w, n, count, n) \in Windows
        /\ \A r \in Row : Copy(w, n, count, n)[r]
             = IF r \in (n - n)..(n - n + count - 1)
               THEN IF r + n \in Row THEN w[r + n] ELSE Garbled ELSE w[r]
    BY <1>0, <2>1, CopyAt
  <2>3. MovedUp(w, where, n) = Copy(w, n, count, n)
    BY <1>1 DEF MovedUp
  <2>4. \A r \in Row :
          /\ r \in (n - n)..(n - n + count - 1)
               <=> From(where, r) /\ r + n <= bot_marg + shift /\ r + n <= max_row
          /\ r \in (n - n)..(n - n + count - 1) => r + n \in Row
    BY <1>0, <1>1 DEF Numbers, Row, From, Smaller
  <2> HIDE DEF count
  <2> QED BY <2>2, <2>3, <2>4
<1>2. CASE ~(scrollWidget /\ where = 0)
  <2> DEFINE count == bot_marg - where + 1 - n - Larger(bot_marg - bot, 0)
             first == where + shift + n
  <2>1. count \in Int /\ first \in Int /\ first - n = where + shift
    BY <1>0 DEF Numbers, Larger
  <2>2. /\ Copy(w, first, count, n) \in Windows
        /\ \A r \in Row : Copy(w, first, count, n)[r]
             = IF r \in (first - n)..(first - n + count - 1)
               THEN IF r + n \in Row THEN w[r + n] ELSE Garbled ELSE w[r]
    BY <1>0, <2>1, CopyAt
  <2>3. MovedUp(w, where, n) = Copy(w, first, count, n)
    BY <1>2 DEF MovedUp
  <2>4. \A r \in Row :
          /\ r \in (first - n)..(first - n + count - 1)
               <=> From(where, r) /\ r + n <= bot_marg + shift /\ r + n <= max_row
          /\ r \in (first - n)..(first - n + count - 1) => r + n \in Row
    BY <1>0, <1>2 DEF Numbers, Row, From, Larger
  <2> HIDE DEF count, first
  <2> QED BY <2>2, <2>3, <2>4
<1> QED BY <1>1, <1>2

\* Lines closed in the window as in the buffer, if the window shows the end of the
\* region.
LEMMA ClosedShows ==
  ASSUME TypeInv, InRegion, bot_marg <= bot, NEW w \in Windows, Shows(w, buf),
         NEW n \in 1..(bot_marg - cur_row + 1), NEW r \in Row
  PROVE  Closed(w, n)[r] = Deleted(cur_row, n)[r + topline]
<1> DEFINE end    == max_row - n + 1
           hidden == Larger(bot_marg - bot, 0)
           saves  == scrollWidget /\ cur_row = 0
           above  == IF saves \/ hidden = 0 THEN 0 ELSE Larger(cur_row + n - 1 - bot, 0)
           first  == Smaller(bot_marg - n + 1 + shift, end)
           v      == MovedUp(w, cur_row, n)
<1>0. Numbers /\ Placed /\ buf \in Buffers /\ cur_row \in Row /\ r \in 0..max_row
      /\ n \in Nat /\ n >= 1 /\ cur_row <= bot_marg
  BY FromCursor, TypeNumbers, TypeFlush DEF Placed, Row
<1>1. above = 0 /\ first = bot_marg - n + 1 + shift /\ first \in Int /\ hidden = 0
  BY <1>0 DEF Numbers, Larger, Smaller
<1>2. /\ v \in Windows
      /\ v[r] = IF From(cur_row, r) /\ r + n <= bot_marg + shift /\ r + n <= max_row
                THEN w[r + n] ELSE w[r]
  BY <1>0, MovedUpAt
<1>3. Closed(w, n) = Wipe(v, first, n - above)
  <2> HIDE DEF end, above, first, hidden, saves
  <2>1. Closed(w, n) = Wipe(IF saves
          THEN Copy(w, n, Smaller(bot_marg - cur_row + 1 - n + shift, end), n)
          ELSE Copy(w, cur_row + shift + n, bot_marg - cur_row + 1 - n - hidden, n),
          first, n - above)
    <3>1. CASE saves
      BY <3>1 DEF Closed, end, above, first, hidden, saves
    <3>2. CASE ~saves
      <4>1. hidden = 0
        BY <1>1
      <4> QED BY <1>0, <3>2, <4>1 DEF Numbers, Closed, end, above, first, hidden, saves
    <3> QED BY <3>1, <3>2
  <2>2. v = IF saves
          THEN Copy(w, n, Smaller(bot_marg - cur_row + 1 - n + shift, end), n)
          ELSE Copy(w, cur_row + shift + n, bot_marg - cur_row + 1 - n - hidden, n)
    BY DEF MovedUp, end, hidden, saves
  <2> HIDE DEF v
  <2> QED BY <2>1, <2>2
<1> HIDE DEF v
<1>4. Closed(w, n)[r] = IF r \in first..(first + n - 1) THEN Blank ELSE v[r]
  <2>1. n - above = n
    BY <1>0, <1>1
  <2> QED BY <1>0, <1>1, <1>2, <1>3, <2>1, WipeAt
<1>5. Deleted(cur_row, n)[r + topline]
           = IF From(cur_row, r) /\ r + n <= bot_marg + shift THEN buf[r + n + topline]
             ELSE IF From(cur_row, r) /\ r <= bot_marg + shift THEN Blank ELSE buf[r + topline]
  BY <1>0, DeletedAt DEF From
<1>6. w[r] = buf[r + topline] /\ (r + n \in Row => w[r + n] = buf[r + n + topline])
  BY DEF Shows
<1>7. /\ r \in first..(first + n - 1)
           <=> From(cur_row, r) /\ r <= bot_marg + shift /\ ~(r + n <= bot_marg + shift)
      /\ r + n <= bot_marg + shift => r + n <= max_row /\ r <= bot_marg + shift
      /\ r + n <= max_row => r + n \in Row
  BY <1>0, <1>1 DEF Numbers, From, Row
<1> HIDE DEF first
<1> QED BY <1>2, <1>4, <1>5, <1>6, <1>7

\* A smooth scroll, part of which the window may not show.
LEMMA SmoothShows ==
  ASSUME TypeInv, Shows(win, buf), NEW n \in 1..Height, SmoothUp(n), NEW r \in Row
  PROVE  win'[r] = buf'[r + topline]
<1> DEFINE end    == max_row - n + 1
           first  == Smaller(bot_marg - n + 1 + shift, end)
           hidden == Larger(bot_marg - bot, 0)
           above  == IF Saves \/ hidden = 0 THEN 0 ELSE Larger(top_marg + n - 1 - bot, 0)
           low    == first + above
           size   == n - above
           drawn  == Smaller(size, shift)
           v      == MovedUp(win, top_marg, n)
           w      == Wipe(v, low, size)
<1>0. /\ Numbers /\ Placed /\ buf \in Buffers /\ win \in Windows /\ top_marg \in Row
      /\ r \in 0..max_row /\ n \in Nat /\ n >= 1 /\ n \in 1..(bot_marg - top_marg + 1)
      /\ top_marg <= bot_marg /\ Height = bot_marg - top_marg + 1
      /\ 0 \in Int /\ topline \in (-savelines)..0
  BY TypeNumbers, TypeFlush DEF Placed, Row, Height, Numbers
<1>1. /\ low \in Int /\ size \in Int /\ drawn \in Int
      /\ r \in low..(low + size - 1)
           <=> /\ From(top_marg, r) /\ r <= bot_marg + shift
               /\ ~(r + n <= bot_marg + shift /\ r + n <= max_row)
      /\ r \in low..(low + drawn - 1) => r \in low..(low + size - 1)
      /\ r \in low..(low + size - 1) /\ r \notin low..(low + drawn - 1)
           => ~(r + n <= bot_marg + shift)
  <2>1. end \in Int /\ first \in Int /\ hidden \in Int /\ above \in Int
    BY <1>0 DEF Numbers, Smaller, Larger
  <2>2. CASE Saves
    BY <1>0, <2>2 DEF Numbers, Smaller, Larger, Saves, From
  <2>3. CASE ~Saves /\ bot_marg <= bot
    BY <1>0, <2>3 DEF Numbers, Smaller, Larger, Saves, From
  <2>4. CASE ~Saves /\ ~(bot_marg <= bot)
    <3>1. first = end /\ low = Larger(end, top_marg + shift)
      BY <1>0, <2>4 DEF Numbers, Smaller, Larger, Saves
    <3>2. low + size - 1 = max_row /\ low \in Int /\ size \in Int /\ drawn \in Int
      BY <1>0, <2>4, <3>1 DEF Numbers, Smaller, Larger, Saves
    <3> HIDE DEF low, size
    <3> QED BY <1>0, <2>4, <3>1, <3>2 DEF Numbers, Smaller, Larger, Saves, From
  <2> QED BY <2>2, <2>3, <2>4
<1>2. /\ v \in Windows
      /\ v[r] = IF From(top_marg, r) /\ r + n <= bot_marg + shift /\ r + n <= max_row
                THEN win[r + n] ELSE win[r]
  BY <1>0, MovedUpAt
<1>3. /\ buf' = Deleted(top_marg, n)
      /\ win' = Refreshed(w, buf', low, drawn, 0, topline)
  <2> DEFINE moved == IF Saves THEN Copy(win, n, Smaller(Height - n + shift, end), n)
                      ELSE Copy(win, top_marg + shift + n, Height - n - hidden, n)
  <2>1. v = moved
    <3>1. CASE Saves
      BY <1>0, <3>1 DEF MovedUp, Saves, Numbers
    <3>2. CASE ~Saves
      <4>1. Height - n - hidden = bot_marg - top_marg + 1 - n - hidden
        <5>1. hidden \in Int
          BY <1>0 DEF Numbers, Larger
        <5> HIDE DEF hidden
        <5> QED BY <1>0, <5>1 DEF Numbers
      <4>2. v = Copy(win, top_marg + shift + n, bot_marg - top_marg + 1 - n - hidden, n)
        BY <3>2 DEF MovedUp, Saves
      <4>3. moved = Copy(win, top_marg + shift + n, Height - n - hidden, n)
        BY <3>2
      <4> QED BY <4>1, <4>2, <4>3, Zenon
    <3> QED BY <3>1, <3>2
  <2>2. /\ buf' = Deleted(top_marg, n)
        /\ win' = Refreshed(Wipe(moved, low, size), buf', low, drawn, 0, topline)
    BY DEF SmoothUp
  <2> QED BY <2>1, <2>2, Zenon
<1> HIDE DEF low, size, drawn, v
<1>4. w \in Windows /\ w[r] = IF r \in low..(low + size - 1) THEN Blank ELSE v[r]
  BY <1>0, <1>1, <1>2, WipeAt
<1> HIDE DEF w
<1>5. buf' \in Buffers
  BY <1>0, <1>3, ChangedBuffers
<1>6. win'[r] = IF r \in low..(low + drawn - 1) THEN Overlay(w[r], buf'[r + topline]) ELSE w[r]
  <2>1. Source(r, 0) = r
    BY <1>0 DEF Source
  <2> QED BY <1>0, <1>1, <1>3, <1>4, <1>5, <2>1, RefreshedAt
<1>7. buf'[r + topline]
           = IF From(top_marg, r) /\ r + n <= bot_marg + shift THEN buf[r + n + topline]
             ELSE IF From(top_marg, r) /\ r <= bot_marg + shift THEN Blank ELSE buf[r + topline]
  BY <1>0, <1>3, DeletedAt DEF From
<1>8. CASE r \in low..(low + size - 1)
  <2>1. w[r] = Blank
    BY <1>4, <1>8
  <2>2. CASE r \in low..(low + drawn - 1)
    BY <1>6, <2>1, <2>2, Overlaid
  <2>3. CASE r \notin low..(low + drawn - 1)
    <3>1. buf'[r + topline] = Blank
      BY <1>1, <1>7, <1>8, <2>3
    <3> QED BY <1>6, <2>1, <2>3, <3>1
  <2> QED BY <2>2, <2>3
<1>9. CASE r \notin low..(low + size - 1)
  <2>1. win'[r] = v[r]
    BY <1>1, <1>4, <1>6, <1>9
  <2>2. CASE From(top_marg, r) /\ r + n <= bot_marg + shift /\ r + n <= max_row
    <3>1. r + n \in Row
      BY <1>0, <2>2 DEF Row
    <3>2. win[r + n] = buf[r + n + topline]
      BY <3>1 DEF Shows
    <3> QED BY <1>2, <1>7, <2>1, <2>2, <3>2
  <2>3. CASE ~(From(top_marg, r) /\ r <= bot_marg + shift)
    <3>1. ~(From(top_marg, r) /\ r + n <= bot_marg + shift)
      BY <1>0, <2>3 DEF Numbers
    <3>2. v[r] = win[r]
      BY <1>2, <3>1
    <3>3. win[r] = buf[r + topline]
      BY DEF Shows
    <3> QED BY <1>7, <2>1, <2>3, <3>1, <3>2, <3>3
  <2> QED BY <1>1, <1>9, <2>2, <2>3
<1> QED BY <1>8, <1>9

\* What a clearing of the screen shows: blank lines from the first row of the screen
\* on, and above it what was there.
LEMMA ShownCleared ==
  ASSUME TypeInv, Shown, NEW count, NEW top \in Row, NEW last \in Row, top <= last,
         \/ scroll_amt = 0
         \/ shift = 0
         \/ top = top_marg /\ last = bot_marg /\ UNCHANGED margins,
         Cleared(count, top, last), UNCHANGED <<topline, scrollWidget>>
  PROVE  Shown'
<1>0. /\ Numbers /\ Placed /\ buf \in Buffers /\ Row = 0..max_row /\ PendingInv
      /\ Shows(Flushed, buf) /\ refresh_amt \in Int
  BY TypeNumbers, TypeFlush, TypeParts, ShownFlushed DEF Placed, Row, LinesInv, Numbers
<1>1. \A r \in Row : buf'[r + topline] = IF r >= shift THEN Blank ELSE buf[r + topline]
  <2> SUFFICES ASSUME NEW r \in Row
               PROVE  buf'[r + topline] = IF r >= shift THEN Blank ELSE buf[r + topline]
    OBVIOUS
  <2> DEFINE x == r + topline
  <2>1. x \in DOMAIN buf /\ (x \in 0..max_row <=> r >= shift)
    BY <1>0 DEF Numbers, Buffers
  <2>2. buf'[x] = IF x \in 0..max_row THEN Blank ELSE buf[x]
    BY <2>1 DEF Cleared, Erased
  <2> QED BY <2>1, <2>2
<1>2. CASE shift > max_row
  <2>1. UNCHANGED <<win, pending>> /\ shift # 0
    BY <1>0, <1>2 DEF Cleared, Numbers
  <2>2. \A r \in Row : buf'[r + topline] = buf[r + topline]
    BY <1>0, <1>1, <1>2 DEF Numbers
  <2>3. CASE scroll_amt = 0
    <3>1. \A r \in Row : win[r] = buf[r + topline]
      BY <2>3, NothingPending DEF Shows
    <3> QED BY <2>1, <2>2, <2>3, <3>1, ShownAfter
  <2>4. CASE scroll_amt # 0
    <3>1. UNCHANGED margins
      BY <2>1, <2>4
    <3>2. \A r \in Row : (MovedRow(r)' <=> MovedRow(r)) /\ (FreshRow(r)' <=> FreshRow(r))
      BY <2>1, <3>1 DEF MovedRow, FreshRow, Moved, Fresh, FirstDrawn, shift, bot
    <3> HIDE DEF MovedRow, FreshRow
    <3>3. Row' = Row /\ scroll_amt' = scroll_amt /\ topline' = topline /\ win' = win
      BY <2>1 DEF Row
    <3> QED BY <2>2, <3>2, <3>3 DEF Shown
  <2> QED BY <2>3, <2>4
<1>3. CASE ~(shift > max_row)
  <2> DEFINE w == FlushedWith(buf, refresh_amt, top, last)
  <2>1. w \in Windows
    BY <1>0, FlushAt DEF Numbers, FlushedAt
  <2>2. \A r \in Row : r < shift => w[r] = buf[r + topline]
    <3>1. CASE scroll_amt = 0
      <4>1. w = win
        BY <3>1 DEF FlushedWith
      <4> QED BY <3>1, <4>1, NothingPending DEF Shows
    <3>2. CASE shift = 0
      BY <1>0, <3>2
    <3>3. CASE top = top_marg /\ last = bot_marg
      <4>1. w = Flushed
        BY <3>3 DEF Flushed
      <4> QED BY <1>0, <4>1 DEF Shows
    <3> QED BY <3>1, <3>2, <3>3
  <2>3. win' = Wipe(w, shift, max_row - shift + 1) /\ scroll_amt' = 0
    BY <1>3 DEF Cleared
  <2> HIDE DEF w
  <2>4. \A r \in Row : win'[r] = IF r \in shift..(shift + (max_row - shift + 1) - 1)
                                 THEN Blank ELSE w[r]
    BY <1>0, <2>1, <2>3, WipeAt DEF Numbers
  <2>5. \A r \in Row : r \in shift..(shift + (max_row - shift + 1) - 1) <=> r >= shift
    BY <1>0 DEF Numbers
  <2>6. \A r \in Row : r >= shift \/ r < shift
    BY <1>0 DEF Numbers
  <2>7. \A r \in Row : win'[r] = buf'[r + topline]
    BY <1>1, <2>2, <2>4, <2>5, <2>6
  <2> QED BY <2>3, <2>7, ShownAfter
<1> QED BY <1>0, <1>2, <1>3

LEMMA ShownScrollUp ==
  ASSUME TypeInv, Shown, jumpscroll \/ scroll_amt = 0, NEW count \in Nat \ {0},
         ScrollUp(count), UNCHANGED <<topline, margins, jumpscroll, scrollWidget>>
  PROVE  Shown' /\ (jumpscroll' \/ scroll_amt' = 0)
<1> DEFINE n == Smaller(count, Height)
<1>0. n \in 1..Height /\ top_marg \in Row /\ bot_marg \in Row /\ top_marg <= bot_marg
  BY ScrolledBy, TypeParts DEF PlaceInv
<1>1. \/ /\ jumpscroll /\ buf' = Deleted(top_marg, n)
         /\ \/ scroll_amt > 0 /\ Postpone(n, n)
            \/ FlushThen(n)
      \/ ~jumpscroll /\ Cleared(savedlines, top_marg, bot_marg)
      \/ ~jumpscroll /\ SmoothUp(n)
  BY DEF ScrollUp
<1> HIDE DEF n
<1>2. CASE /\ jumpscroll /\ buf' = Deleted(top_marg, n)
           /\ \/ scroll_amt > 0 /\ Postpone(n, n)
              \/ FlushThen(n)
  BY <1>0, <1>2, ShownPostponeUp, ShownFlushUp
<1>3. CASE ~jumpscroll /\ Cleared(savedlines, top_marg, bot_marg)
  <2>1. Shown'
    BY <1>0, <1>3, ShownCleared
  <2>2. scroll_amt' = 0
    BY <1>3 DEF Cleared
  <2> QED BY <2>1, <2>2
<1>4. CASE ~jumpscroll /\ SmoothUp(n)
  <2>1. Shows(win, buf) /\ scroll_amt' = 0
    BY <1>4, NothingPending DEF SmoothUp
  <2>2. \A r \in Row : win'[r] = buf'[r + topline]
    BY <1>0, <1>4, <2>1, SmoothShows
  <2> QED BY <2>1, <2>2, ShownAfter
<1> QED BY <1>1, <1>2, <1>3, <1>4

LEMMA ShownScrollDown ==
  ASSUME TypeInv, Shown, jumpscroll \/ scroll_amt = 0, NEW count \in Nat \ {0},
         ScrollDown(count), UNCHANGED <<topline, margins, jumpscroll, scrollWidget>>
  PROVE  Shown' /\ (jumpscroll' \/ scroll_amt' = 0)
<1> DEFINE n == Smaller(count, Height)
<1>0. /\ n \in 1..Height /\ top_marg \in Row /\ Numbers /\ n \in 1..(bot_marg - top_marg + 1)
      /\ n \in Nat /\ top_marg + n <= bot_marg + 1 /\ win \in Windows
  <2>1. n \in 1..Height /\ top_marg \in Row /\ Numbers /\ win \in Windows
    BY ScrolledBy, TypeNumbers, TypeParts DEF PlaceInv, LinesInv
  <2> HIDE DEF n
  <2> QED BY <2>1 DEF Numbers, Height
<1>1. /\ buf' = Inserted(top_marg, n)
      /\ \/ jumpscroll /\ scroll_amt < 0 /\ Postpone(-n, -n)
         \/ jumpscroll /\ FlushThen(-n)
         \/ /\ ~jumpscroll /\ win' = Opened(win, top_marg, bot_marg, n, n)
            /\ UNCHANGED pending
  BY DEF ScrollDown
<1> HIDE DEF n
<1>2. CASE jumpscroll /\ scroll_amt < 0 /\ Postpone(-n, -n)
  <2>1. /\ top_marg \in top_marg..bot_marg /\ scroll_amt <= 0
        /\ top_marg <= top_marg - refresh_amt
    BY <1>0, <1>2 DEF Numbers
  <2> QED BY <1>0, <1>1, <1>2, <2>1, ShownPostponeDown
<1>3. CASE jumpscroll /\ FlushThen(-n)
  BY <1>0, <1>1, <1>3, ShownFlushDown
<1>4. CASE ~jumpscroll /\ win' = Opened(win, top_marg, bot_marg, n, n) /\ UNCHANGED pending
  <2>1. Shows(win, buf) /\ scroll_amt' = 0
    BY <1>4, NothingPending
  <2>2. \A r \in Row : win'[r] = buf'[r + topline]
    BY <1>0, <1>1, <1>4, <2>1, OpenedShows
  <2> QED BY <2>1, <2>2, ShownAfter
<1> QED BY <1>1, <1>2, <1>3, <1>4

LEMMA ShownInsertLine ==
  ASSUME TypeInv, Shown, jumpscroll \/ scroll_amt = 0, NEW count \in Nat \ {0},
         InsertLine(count), ~spoiled'
  PROVE  Shown' /\ (jumpscroll' \/ scroll_amt' = 0)
<1> DEFINE n == Smaller(count, bot_marg - cur_row + 1)
<1>0. /\ Numbers /\ Placed /\ cur_row \in Row /\ top_marg \in Row
      /\ n \in 1..(bot_marg - cur_row + 1) /\ InRegion
  BY FromCursor, TypeNumbers, TypeFlush, TypeParts DEF InsertLine, PlaceInv
<1>1. /\ UNCHANGED <<topline, margins, jumpscroll, scrollWidget>> /\ buf' = Inserted(cur_row, n)
      /\ \/ /\ jumpscroll /\ scroll_amt <= 0 /\ cur_row <= - refresh_amt /\ Postpone(-n, -n)
         \/ jumpscroll /\ ~(cur_row > top_marg) /\ FlushThen(-n)
         \/ win' = Opened(Flushed, cur_row, bot_marg, n, n) /\ scroll_amt' = 0
  BY DEF InsertLine, Spoils, Fixed
<1> HIDE DEF n
<1>2. CASE jumpscroll /\ scroll_amt <= 0 /\ cur_row <= - refresh_amt /\ Postpone(-n, -n)
  <2>1. cur_row \in top_marg..bot_marg /\ cur_row <= top_marg - refresh_amt
    BY <1>0, <1>2 DEF Numbers, InRegion
  <2> QED BY <1>0, <1>1, <1>2, <2>1, ShownPostponeDown
<1>3. CASE jumpscroll /\ ~(cur_row > top_marg) /\ FlushThen(-n)
  <2>1. cur_row = top_marg /\ n \in 1..Height
    BY <1>0, <1>3 DEF Numbers, InRegion, Height
  <2> QED BY <1>1, <1>3, <2>1, ShownFlushDown
<1>4. CASE win' = Opened(Flushed, cur_row, bot_marg, n, n) /\ scroll_amt' = 0
  <2>1. Flushed \in Windows /\ Shows(Flushed, buf) /\ n \in Nat /\ cur_row + n <= bot_marg + 1
    BY <1>0, TypeFlush, ShownFlushed DEF FlushedAt, Numbers
  <2>2. \A r \in Row : win'[r] = buf'[r + topline]
    BY <1>0, <1>1, <1>4, <2>1, OpenedShows
  <2> QED BY <1>1, <1>4, <2>2, ShownAfter
<1> QED BY <1>1, <1>2, <1>3, <1>4

LEMMA ShownDeleteLine ==
  ASSUME TypeInv, Shown, jumpscroll \/ scroll_amt = 0, NEW count \in Nat \ {0},
         DeleteLine(count), ~spoiled'
  PROVE  Shown' /\ (jumpscroll' \/ scroll_amt' = 0)
<1> DEFINE n == Smaller(count, bot_marg - cur_row + 1)
<1>0. /\ Numbers /\ Placed /\ cur_row \in Row /\ top_marg \in Row
      /\ n \in 1..(bot_marg - cur_row + 1) /\ InRegion
  BY FromCursor, TypeNumbers, TypeFlush, TypeParts DEF DeleteLine, PlaceInv
<1>1. /\ UNCHANGED <<topline, margins, jumpscroll, scrollWidget>> /\ buf' = Deleted(cur_row, n)
      /\ \/ jumpscroll /\ scroll_amt >= 0 /\ cur_row = top_marg /\ Postpone(n, n)
         \/ jumpscroll /\ cur_row = top_marg /\ FlushThen(n)
         \/ ~(bot_marg > bot) /\ win' = Closed(Flushed, n) /\ scroll_amt' = 0
  BY DEF DeleteLine, Spoils, Fixed
<1> HIDE DEF n
<1>2. CASE jumpscroll /\ cur_row = top_marg /\ ((Postpone(n, n) /\ scroll_amt >= 0) \/ FlushThen(n))
  <2>1. n \in 1..Height
    BY <1>0, <1>2 DEF Numbers, Height
  <2>2. CASE FlushThen(n)
    BY <1>1, <1>2, <2>1, <2>2, ShownFlushUp
  <2>3. CASE Postpone(n, n) /\ scroll_amt > 0
    BY <1>1, <1>2, <2>1, <2>3, ShownPostponeUp
  <2>4. CASE Postpone(n, n) /\ scroll_amt = 0
    <3>1. /\ scroll_amt' = n /\ refresh_amt' = n
          /\ win' = Flushed /\ savedlines' = FlushedSaved
      <4>1. refresh_amt = 0 /\ n \in Int
        BY <1>0, <2>4 DEF Numbers
      <4>2. scroll_amt' = n /\ refresh_amt' = n
        BY <2>4, <4>1 DEF Postpone
      <4>3. win' = Flushed
        BY <2>4, NothingPending DEF Postpone
      <4>4. savedlines' = FlushedSaved
        BY <2>4 DEF Postpone, FlushedSaved, Counted
      <4> QED BY <4>2, <4>3, <4>4
    <3>2. FlushThen(n)
      BY <3>1 DEF FlushThen
    <3> QED BY <1>1, <1>2, <2>1, <3>2, ShownFlushUp
  <2> QED BY <1>0, <1>2, <2>2, <2>3, <2>4 DEF Numbers
<1>3. CASE ~(bot_marg > bot) /\ win' = Closed(Flushed, n) /\ scroll_amt' = 0
  <2>1. Flushed \in Windows /\ Shows(Flushed, buf) /\ bot_marg <= bot
    BY <1>0, <1>3, TypeFlush, ShownFlushed DEF FlushedAt, Numbers
  <2>2. \A r \in Row : win'[r] = buf'[r + topline]
    BY <1>0, <1>1, <1>3, <2>1, ClosedShows
  <2> QED BY <1>1, <1>3, <2>2, ShownAfter
<1> QED BY <1>1, <1>2, <1>3

-----------------------------------------------------------------------------
(* Text and erasing.                                                       *)

\* A step that changes no line of the window.
LEMMA ShownSame ==
  ASSUME Shown, UNCHANGED <<win, topline, pending, margins, scrollWidget>>,
         \A r \in Row : buf'[r + topline] = buf[r + topline]
  PROVE  Shown'
BY DEF Shown, FreshRow, MovedRow, Fresh, Moved, FirstDrawn, shift, bot, Row

LEMMA WrittenAt ==
  ASSUME Numbers, NEW b \in Buffers, NEW line \in Line, NEW r \in Row
  PROVE  [b EXCEPT ![cur_row] = line][r + topline]
           = IF r = cur_row + shift THEN line ELSE b[r + topline]
<1>1. r \in 0..max_row
  BY DEF Row
<1>2. r + topline \in DOMAIN b /\ (r + topline = cur_row <=> r = cur_row + shift)
  BY <1>1 DEF Numbers, Buffers
<1> QED BY <1>2

\* With one more row to draw: a row that was moved is drawn, and no other changes.
LEMMA Grown ==
  ASSUME TypeInv, Covered, NEW r \in Row
  PROVE  /\ Moved(r, AddToRefresh, top_marg, bot_marg) => MovedRow(r)
         /\ \/ Moved(r, AddToRefresh, top_marg, bot_marg)
            \/ Fresh(r, AddToRefresh, top_marg, bot_marg)
            \/ ~MovedRow(r) /\ ~FreshRow(r)
         /\ InRegion /\ r = cur_row + shift
              => /\ Fresh(r, AddToRefresh, top_marg, bot_marg)
                 /\ ~Moved(r, AddToRefresh, top_marg, bot_marg)
<1> DEFINE ref == AddToRefresh
<1>0. r \in 0..max_row /\ Numbers /\ ref \in Int
  BY TypeNumbers, TypeAdd DEF Row
<1>1. /\ refresh_amt > 0 => ref >= refresh_amt
      /\ refresh_amt < 0 => ref <= refresh_amt
  BY <1>0 DEF Numbers, AddToRefresh
<1>2. \/ scroll_amt > 0 /\ refresh_amt > 0 /\ cur_row \in (bot_marg - ref + 1)..bot_marg
      \/ scroll_amt < 0 /\ refresh_amt < 0 /\ cur_row \in top_marg..(top_marg - ref - 1)
  BY <1>0 DEF Numbers, Covered
<1> HIDE DEF ref
<1>3. CASE scroll_amt > 0 /\ refresh_amt > 0 /\ cur_row \in (bot_marg - ref + 1)..bot_marg
  <2> DEFINE old == FirstDrawn(refresh_amt, bot_marg)
             new == FirstDrawn(ref, bot_marg)
  <2>1. /\ old \in Int /\ new \in Int /\ new <= old /\ old <= bot_marg + shift
        /\ new <= bot_marg - ref + 1 + shift
    BY <1>0, <1>1, <1>3 DEF Numbers, FirstDrawn, Smaller
  <2> HIDE DEF old, new
  <2>2. /\ MovedRow(r) <=> r < old /\ ((scrollWidget /\ top_marg = 0) \/ r >= top_marg + shift)
        /\ FreshRow(r) <=> /\ r \in old..(bot_marg + shift)
                           /\ \/ scrollWidget /\ top_marg = 0
                              \/ r >= top_marg + shift
                              \/ bot_marg - refresh_amt + scroll_amt < bot
        /\ Moved(r, ref, top_marg, bot_marg)
             <=> r < new /\ ((scrollWidget /\ top_marg = 0) \/ r >= top_marg + shift)
        /\ Fresh(r, ref, top_marg, bot_marg)
             <=> /\ r \in new..(bot_marg + shift)
                 /\ \/ scrollWidget /\ top_marg = 0
                    \/ r >= top_marg + shift
                    \/ bot_marg - ref + scroll_amt < bot
    BY <1>0, <1>3 DEF Numbers, MovedRow, FreshRow, Moved, Fresh, old, new
  <2>3. bot_marg - refresh_amt + scroll_amt < bot => bot_marg - ref + scroll_amt < bot
    BY <1>0, <1>1, <1>3 DEF Numbers
  <2> QED BY <1>0, <1>3, <2>1, <2>2, <2>3 DEF Numbers, InRegion, ref
<1>4. CASE scroll_amt < 0 /\ refresh_amt < 0 /\ cur_row \in top_marg..(top_marg - ref - 1)
  BY <1>0, <1>1, <1>4 DEF Numbers, MovedRow, FreshRow, Moved, Fresh, InRegion, ref
<1> QED BY <1>2, <1>3, <1>4

\* Text drawn over a line that the window shows.
LEMMA DrawnAt ==
  ASSUME TypeInv, Visible, NEW line \in Line, NEW w \in Windows,
         w[cur_row + shift] = buf[cur_row], NEW r \in Row
  PROVE  Drawn(w, line)[r] = IF r = cur_row + shift THEN line ELSE w[r]
<1>1. cur_row + shift \in Row
  BY TypeNumbers DEF Visible, Numbers, Row
<1> QED BY <1>1 DEF Drawn, Windows

LEMMA DrawnShows ==
  ASSUME TypeInv, Visible, NEW line \in Line, NEW w \in Windows, Shows(w, buf)
  PROVE  Shows(Drawn(w, line), [buf EXCEPT ![cur_row] = line])
<1>1. cur_row + shift \in Row /\ cur_row + shift + topline = cur_row
  BY TypeNumbers DEF Visible, Numbers, Row
<1>2. w[cur_row + shift] = buf[cur_row]
  BY <1>1 DEF Shows
<1> SUFFICES ASSUME NEW r \in Row
             PROVE  Drawn(w, line)[r] = [buf EXCEPT ![cur_row] = line][r + topline]
  BY DEF Shows
<1>3. Drawn(w, line)[r] = IF r = cur_row + shift THEN line ELSE w[r]
  BY <1>2, DrawnAt
<1>4. [buf EXCEPT ![cur_row] = line][r + topline]
        = IF r = cur_row + shift THEN line ELSE buf[r + topline]
  BY TypeNumbers, TypeFlush, WrittenAt DEF Placed
<1>5. w[r] = buf[r + topline]
  BY DEF Shows
<1> QED BY <1>3, <1>4, <1>5

LEMMA ShownWrite ==
  ASSUME TypeInv, Shown, jumpscroll \/ scroll_amt = 0, NEW line \in Line, Write(line), ~spoiled'
  PROVE  Shown' /\ (jumpscroll' \/ scroll_amt' = 0)
<1>0. /\ Numbers /\ buf' = [buf EXCEPT ![cur_row] = line] /\ ~Overrun
      /\ UNCHANGED <<topline, margins, jumpscroll, scrollWidget>> /\ Row' = Row
  BY TypeNumbers DEF Write, Spoils, Fixed, Row
<1>1. \A r \in Row : buf'[r + topline] = IF r = cur_row + shift THEN line ELSE buf[r + topline]
  BY <1>0, TypeFlush, WrittenAt DEF Placed
<1>2. CASE ~Visible
  <2>1. UNCHANGED <<win, pending>>
    BY <1>2 DEF Write
  <2>2. \A r \in Row : r # cur_row + shift
    BY <1>0, <1>2 DEF Visible, Numbers, Row
  <2> QED BY <1>0, <1>1, <2>1, <2>2, ShownSame
<1>3. CASE Visible /\ Covered
  <2>1. refresh_amt' = AddToRefresh /\ UNCHANGED <<win, scroll_amt>> /\ InRegion
    BY <1>0, <1>3 DEF Write, Overrun
  <2>2. \A r \in Row : /\ MovedRow(r)' <=> Moved(r, AddToRefresh, top_marg, bot_marg)
                       /\ FreshRow(r)' <=> Fresh(r, AddToRefresh, top_marg, bot_marg)
    BY <1>0, <2>1 DEF MovedRow, FreshRow, Moved, Fresh, FirstDrawn, shift, bot
  <2>3. \A r \in Row :
          /\ MovedRow(r)' => MovedRow(r) /\ r # cur_row + shift
          /\ ~MovedRow(r)' /\ ~FreshRow(r)'
               => ~MovedRow(r) /\ ~FreshRow(r) /\ r # cur_row + shift
    BY <1>3, <2>1, <2>2, Grown
  <2> QED BY <1>0, <1>1, <2>1, <2>3 DEF Shown
<1>4. CASE Visible /\ ~Covered
  <2>1. win' = Drawn(Flushed, line) /\ scroll_amt' = 0
    BY <1>4 DEF Write
  <2>2. Flushed \in Windows /\ Shows(Flushed, buf)
    BY TypeFlush, ShownFlushed DEF FlushedAt
  <2>3. \A r \in Row : win'[r] = buf'[r + topline]
    BY <1>0, <1>4, <2>1, <2>2, DrawnShows DEF Shows
  <2> QED BY <1>0, <2>1, <2>3, ShownAfter
<1> QED BY <1>0, <1>2, <1>3, <1>4

LEMMA ErasedAt ==
  ASSUME Numbers, buf \in Buffers, NEW first \in Int, NEW last \in Int, NEW r \in Row
  PROVE  Erased(first, last)[r + topline]
           = IF r \in (first + shift)..(last + shift) THEN Blank ELSE buf[r + topline]
<1>1. r \in 0..max_row
  BY DEF Row
<1>2. /\ r + topline \in DOMAIN buf
      /\ (r + topline \in first..last <=> r \in (first + shift)..(last + shift))
  BY <1>1 DEF Numbers, Buffers
<1>3. Erased(first, last)[r + topline]
        = IF r + topline \in first..last THEN Blank ELSE buf[r + topline]
  BY <1>2 DEF Erased
<1> QED BY <1>2, <1>3

LEMMA ShownClearBelow ==
  ASSUME TypeInv, Shown, jumpscroll \/ scroll_amt = 0, NEW line \in Line, ClearBelow(line),
         ~spoiled'
  PROVE  Shown' /\ (jumpscroll' \/ scroll_amt' = 0)
<1> DEFINE written == [buf EXCEPT ![cur_row] = line]
           added   == FlushedWith(written, AddToRefresh, top_marg, bot_marg)
           w       == IF Covered THEN added ELSE Drawn(Flushed, line)
           row     == cur_row + shift + 1
<1>0. /\ Numbers /\ Placed /\ buf \in Buffers /\ ~Overrun /\ cur_row \in Row
      /\ UNCHANGED <<topline, margins, jumpscroll, scrollWidget>> /\ Row' = Row
      /\ buf' = [Erased(cur_row + 1, max_row) EXCEPT ![cur_row] = line]
  BY TypeNumbers, TypeFlush, TypeParts
     DEF ClearBelow, Spoils, Fixed, Row, Placed, PlaceInv
<1>1. \A r \in Row : buf'[r + topline]
        = IF r = cur_row + shift THEN line
          ELSE IF r \in (cur_row + 1 + shift)..(max_row + shift) THEN Blank ELSE buf[r + topline]
  <2>1. cur_row + 1 \in Int /\ max_row \in Int
    BY <1>0 DEF Numbers
  <2> DEFINE e == Erased(cur_row + 1, max_row)
  <2>2. \A r \in Row : e[r + topline] = IF r \in (cur_row + 1 + shift)..(max_row + shift) THEN Blank
                                         ELSE buf[r + topline]
    BY <1>0, <2>1, ErasedAt
  <2>4. e \in Buffers
    BY <1>0, <2>1, TypeFlush, ChangedBuffers
  <2> HIDE DEF e
  <2>3. buf' = [e EXCEPT ![cur_row] = line]
    BY <1>0 DEF e
  <2>5. \A r \in Row : [e EXCEPT ![cur_row] = line][r + topline]
                           = IF r = cur_row + shift THEN line ELSE e[r + topline]
    BY <1>0, <2>4, WrittenAt
  <2> QED BY <2>2, <2>3, <2>5
<1>2. CASE ~Visible
  <2>1. UNCHANGED <<win, pending>>
    BY <1>2 DEF ClearBelow
  <2>2. \A r \in Row : r # cur_row + shift /\ r \notin (cur_row + 1 + shift)..(max_row + shift)
    BY <1>0, <1>2 DEF Visible, Numbers, Row
  <2> QED BY <1>0, <1>1, <2>1, <2>2, ShownSame
<1>3. CASE Visible
  <2>1. written \in Buffers
    BY <1>0, ChangedBuffers
  <2>2. \A r \in Row : written[r + topline] = IF r = cur_row + shift THEN line
                                               ELSE buf[r + topline]
    BY <1>0, WrittenAt
  <2>3. /\ win' = Wipe(w, row, max_row - row + 1) /\ scroll_amt' = 0
    BY <1>3 DEF ClearBelow
  <2>4. w \in Windows /\ Shows(w, written)
    <3>1. CASE Covered
      <4>1. FlushedAt(added, written, AddToRefresh, top_marg, bot_marg)
        BY <2>1, AddAt
      <4> HIDE DEF added, written
      <4> SUFFICES ASSUME NEW r \in Row PROVE added[r] = written[r + topline]
        BY <3>1, <4>1 DEF Shows, FlushedAt
      <4>2. added[r] = IF Fresh(r, AddToRefresh, top_marg, bot_marg) THEN written[r + topline]
                       ELSE IF Moved(r, AddToRefresh, top_marg, bot_marg)
                       THEN win[r + scroll_amt] ELSE win[r]
        BY <4>1 DEF FlushedAt
      <4>3. InRegion
        BY <1>0, <1>3, <3>1 DEF Overrun
      <4>4. CASE Fresh(r, AddToRefresh, top_marg, bot_marg)
        BY <4>2, <4>4
      <4>5. CASE /\ ~Fresh(r, AddToRefresh, top_marg, bot_marg)
                 /\ Moved(r, AddToRefresh, top_marg, bot_marg)
        <5>1. MovedRow(r) /\ r # cur_row + shift
          BY <3>1, <4>3, <4>5, Grown
        <5> QED BY <2>2, <4>2, <4>5, <5>1 DEF Shown
      <4>6. CASE /\ ~Fresh(r, AddToRefresh, top_marg, bot_marg)
                 /\ ~Moved(r, AddToRefresh, top_marg, bot_marg)
        <5>1. ~MovedRow(r) /\ ~FreshRow(r) /\ r # cur_row + shift
          BY <3>1, <4>3, <4>6, Grown
        <5> QED BY <2>2, <4>2, <4>6, <5>1 DEF Shown
      <4> QED BY <4>4, <4>5, <4>6
    <3>2. CASE ~Covered
      <4>1. Flushed \in Windows /\ Shows(Flushed, buf)
        BY TypeFlush, ShownFlushed DEF FlushedAt
      <4>2. Drawn(Flushed, line) \in Windows /\ Shows(Drawn(Flushed, line), written)
        BY <1>3, <4>1, TypeDrawn, DrawnShows
      <4>3. w = Drawn(Flushed, line)
        BY <3>2
      <4> QED BY <4>2, <4>3
    <3> QED BY <3>1, <3>2
  <2> HIDE DEF written, w
  <2>5. row \in Int /\ max_row - row + 1 \in Int
    BY <1>0 DEF Numbers
  <2>6. \A r \in Row : win'[r] = IF r \in row..(row + (max_row - row + 1) - 1) THEN Blank ELSE w[r]
    BY <2>3, <2>4, <2>5, WipeAt
  <2>7. \A r \in Row : /\ r \in row..(row + (max_row - row + 1) - 1)
                            <=> r \in (cur_row + 1 + shift)..(max_row + shift)
                       /\ r \in row..(row + (max_row - row + 1) - 1) => r # cur_row + shift
    BY <1>0 DEF Numbers, Row
  <2> HIDE DEF row
  <2>8. \A r \in Row : win'[r] = buf'[r + topline]
    BY <1>1, <2>2, <2>4, <2>6, <2>7 DEF Shows
  <2> QED BY <1>0, <2>3, <2>8, ShownAfter
<1> QED BY <1>2, <1>3

LEMMA ShownClearAbove ==
  ASSUME TypeInv, Shown, jumpscroll \/ scroll_amt = 0, NEW line \in Line, ClearAbove(line),
         ~spoiled'
  PROVE  Shown' /\ (jumpscroll' \/ scroll_amt' = 0)
<1> DEFINE size == Smaller(cur_row + shift, max_row) - shift
           w    == Wipe(Flushed, shift, size)
<1>0. /\ Numbers /\ buf \in Buffers /\ Visible /\ cur_row \in Row /\ cur_row \in Int
      /\ UNCHANGED <<topline, margins, jumpscroll, scrollWidget>>
      /\ cur_row + shift \in Row
  <2>1. Numbers /\ buf \in Buffers /\ cur_row \in Row
    BY TypeNumbers, TypeParts DEF LinesInv, PlaceInv
  <2>2. Visible /\ UNCHANGED <<topline, margins, jumpscroll, scrollWidget>>
    BY DEF ClearAbove, Spoils, Fixed
  <2> QED BY <2>1, <2>2 DEF Visible, Numbers, Row
<1>1. buf' = [Erased(0, cur_row - 1) EXCEPT ![cur_row] = line]
  BY <1>0 DEF ClearAbove
<1>2. \A r \in Row : buf'[r + topline]
        = IF r = cur_row + shift THEN line
          ELSE IF r \in (0 + shift)..(cur_row - 1 + shift) THEN Blank ELSE buf[r + topline]
  <2>1. cur_row - 1 \in Int /\ 0 \in Int
    BY <1>0
  <2> DEFINE e == Erased(0, cur_row - 1)
  <2>2. \A r \in Row : e[r + topline] = IF r \in (0 + shift)..(cur_row - 1 + shift) THEN Blank
                                         ELSE buf[r + topline]
    BY <1>0, <2>1, ErasedAt
  <2>4. e \in Buffers
    BY <1>0, <2>1, TypeFlush, ChangedBuffers
  <2> HIDE DEF e
  <2>3. buf' = [e EXCEPT ![cur_row] = line]
    BY <1>1 DEF e
  <2> QED BY <1>0, <2>2, <2>3, <2>4, WrittenAt
<1>3. win' = Drawn(w, line) /\ scroll_amt' = 0
  <2>1. ~(shift > max_row)
    BY <1>0 DEF Visible, Numbers
  <2> QED BY <1>0, <2>1 DEF ClearAbove
<1>4. Flushed \in Windows /\ Shows(Flushed, buf)
  BY TypeFlush, ShownFlushed DEF FlushedAt
<1>5. size = cur_row
  BY <1>0 DEF Visible, Numbers, Smaller
<1> HIDE DEF size
<1>6. /\ w \in Windows
      /\ \A r \in Row : w[r] = IF r \in shift..(shift + cur_row - 1) THEN Blank
                               ELSE buf[r + topline]
  <2>1. shift \in Int /\ size \in Int
    BY <1>0, <1>5 DEF Numbers
  <2>2. /\ w \in Windows
        /\ \A r \in Row : w[r] = IF r \in shift..(shift + size - 1) THEN Blank ELSE Flushed[r]
    BY <1>4, <2>1, WipeAt
  <2> QED BY <1>4, <1>5, <2>2 DEF Shows
<1> HIDE DEF w
<1>7. w[cur_row + shift] = buf[cur_row]
  <2>1. cur_row + shift \notin shift..(shift + cur_row - 1) /\ cur_row + shift + topline = cur_row
    BY <1>0 DEF Numbers
  <2> QED BY <1>0, <1>6, <2>1
<1>8. \A r \in Row : win'[r] = IF r = cur_row + shift THEN line ELSE w[r]
  BY <1>0, <1>3, <1>6, <1>7, DrawnAt
<1>9. \A r \in Row : r \in shift..(shift + cur_row - 1)
                       <=> r \in (0 + shift)..(cur_row - 1 + shift)
  BY <1>0 DEF Numbers
<1>10. \A r \in Row : win'[r] = buf'[r + topline]
  BY <1>2, <1>6, <1>8, <1>9
<1> QED BY <1>0, <1>3, <1>10, ShownAfter

\* Every row of the region is drawn or moved if the window shows the end of the buffer.
LEMMA RegionPending ==
  ASSUME Numbers, shift = 0, scroll_amt # 0, NEW r \in top_marg..bot_marg
  PROVE  FreshRow(r) \/ MovedRow(r)
<1>1. CASE scroll_amt > 0
  <2>1. FirstDrawn(refresh_amt, bot_marg) \in Int
    BY DEF Numbers, FirstDrawn, Smaller
  <2> QED BY <1>1, <2>1 DEF Numbers, FreshRow, MovedRow, Fresh, Moved
<1>2. CASE ~(scroll_amt > 0)
  BY <1>2 DEF Numbers, FreshRow, MovedRow, Fresh, Moved
<1> QED BY <1>1, <1>2

\* What a flush moves comes from a row of the window.
LEMMA MovedFrom ==
  ASSUME Numbers, NEW r \in Row, MovedRow(r)
  PROVE  r + scroll_amt \in Row
<1>1. r \in 0..max_row
  BY DEF Row
<1>2. CASE scroll_amt > 0
  <2>1. /\ FirstDrawn(refresh_amt, bot_marg) \in Int
        /\ FirstDrawn(refresh_amt, bot_marg) <= max_row - scroll_amt + 1
    BY DEF Numbers, FirstDrawn, Smaller
  <2> QED BY <1>1, <1>2, <2>1 DEF Numbers, MovedRow, Moved, Row
<1>3. CASE ~(scroll_amt > 0)
  BY <1>1, <1>3 DEF Numbers, MovedRow, Moved, Row
<1> QED BY <1>2, <1>3

LEMMA ShownDECALN ==
  ASSUME TypeInv, Shown, jumpscroll \/ scroll_amt = 0, NEW line \in Line, DECALN(line),
         ~spoiled'
  PROVE  Shown' /\ (jumpscroll' \/ scroll_amt' = 0)
<1> DEFINE filled == [r \in DOMAIN buf |-> IF r \in Row THEN line ELSE buf[r]]
           under  == [r \in Row |-> IF Source(r, scroll_amt) \in shift..max_row THEN Blank
                                    ELSE win[r]]
<1>0. /\ Numbers /\ Placed /\ buf \in Buffers /\ Row = 0..max_row /\ win \in Windows
      /\ scroll_amt \in Int /\ topline \in (-savelines)..0
      /\ UNCHANGED <<pending, topline, margins, jumpscroll, scrollWidget>> /\ Row' = Row
  BY TypeNumbers, TypeFlush DEF DECALN, Fixed, Row, Placed
<1>1. scroll_amt = 0 \/ topline = 0
  BY DEF DECALN, Spoils
<1>2. /\ buf' = filled
      /\ win' = Refreshed(under, filled, 0, max_row + 1, scroll_amt, topline)
  BY DEF DECALN
<1>3. /\ filled \in Buffers
      /\ \A r \in Row : filled[r + topline] = IF r >= shift THEN line ELSE buf[r + topline]
  <2>1. filled \in Buffers
    BY <1>0 DEF Buffers
  <2>2. \A r \in Row : r + topline \in DOMAIN buf /\ (r + topline \in Row <=> r >= shift)
    BY <1>0 DEF Numbers, Buffers
  <2> QED BY <2>1, <2>2
<1>4. /\ under \in Windows
      /\ \A r \in Row : under[r] = IF Source(r, scroll_amt) \in shift..max_row THEN Blank
                                   ELSE win[r]
  BY <1>0, LineAssumption DEF Windows
<1> HIDE DEF filled, under
<1>5. \A r \in Row : win'[r]
        = IF r \in 0..(0 + (max_row + 1) - 1) /\ Source(r, scroll_amt) \in Row
          THEN Overlay(under[r], filled[Source(r, scroll_amt) + topline]) ELSE under[r]
  <2>1. 0 \in Int /\ max_row + 1 \in Int
    BY <1>0 DEF Numbers
  <2> QED BY <1>0, <1>2, <1>3, <1>4, <2>1, RefreshedAt
<1>6. \A r \in Row : r \in 0..(0 + (max_row + 1) - 1)
  BY <1>0 DEF Numbers
<1>7. CASE scroll_amt = 0
  <2>1. \A r \in Row : win[r] = buf[r + topline]
    BY <1>7, NothingPending DEF Shows
  <2> SUFFICES ASSUME NEW r \in Row PROVE win'[r] = buf'[r + topline]
    BY <1>0, <1>7, ShownAfter
  <2>2. Source(r, scroll_amt) = r
    BY <1>0, <1>7 DEF Source
  <2>3. win'[r] = Overlay(under[r], filled[r + topline])
    BY <1>5, <1>6, <2>2
  <2>4. r \in shift..max_row <=> r >= shift
    BY <1>0 DEF Numbers
  <2>5. CASE r >= shift
    <3>1. under[r] = Blank
      BY <1>4, <2>2, <2>4, <2>5
    <3> QED BY <1>2, <2>3, <3>1, Overlaid
  <2>6. CASE ~(r >= shift)
    <3>1. under[r] = buf[r + topline] /\ filled[r + topline] = buf[r + topline]
      BY <1>3, <1>4, <2>1, <2>2, <2>4, <2>6
    <3> QED BY <1>2, <2>3, <3>1 DEF Overlay
  <2> QED BY <2>5, <2>6
<1>8. CASE scroll_amt # 0
  <2>0. shift = 0 /\ topline = 0
    BY <1>0, <1>1, <1>8 DEF Numbers
  <2>1. \A r \in Row : filled[r + topline] = line
    BY <1>0, <1>3, <2>0
  <2>2. \A r \in Row : Source(r, scroll_amt) \in Row => win'[r] = line
    <3> SUFFICES ASSUME NEW r \in Row, Source(r, scroll_amt) \in Row PROVE win'[r] = line
      OBVIOUS
    <3>1. under[r] = Blank
      BY <1>0, <1>4, <2>0
    <3>2. filled[Source(r, scroll_amt) + topline] = line
      BY <2>1
    <3> QED BY <1>5, <1>6, <3>1, <3>2, Overlaid
  <2>3. \A r \in Row : (MovedRow(r)' <=> MovedRow(r)) /\ (FreshRow(r)' <=> FreshRow(r))
    BY <1>0 DEF MovedRow, FreshRow, Moved, Fresh, FirstDrawn, shift, bot
  <2> SUFFICES ASSUME NEW r \in Row
               PROVE  /\ MovedRow(r) => win'[r + scroll_amt] = line
                      /\ ~MovedRow(r) /\ ~FreshRow(r) => win'[r] = line
    <3>1. \A r \in Row : buf'[r + topline] = line
      BY <1>2, <2>1
    <3> HIDE DEF MovedRow, FreshRow
    <3> QED BY <1>0, <2>3, <3>1 DEF Shown
  <2>4. MovedRow(r) => win'[r + scroll_amt] = line
    <3> SUFFICES ASSUME MovedRow(r) PROVE win'[r + scroll_amt] = line
      OBVIOUS
    <3>1. r + scroll_amt \in Row
      BY <1>0, MovedFrom
    <3>2. Source(r + scroll_amt, scroll_amt) \in Row
      BY <1>0, <3>1 DEF Source
    <3> QED BY <2>2, <3>1, <3>2
  <2>5. ~MovedRow(r) /\ ~FreshRow(r) => win'[r] = line
    <3> SUFFICES ASSUME ~MovedRow(r), ~FreshRow(r) PROVE win'[r] = line
      OBVIOUS
    <3>1. r \notin top_marg..bot_marg
      BY <1>0, <1>8, <2>0, RegionPending
    <3>2. Source(r, scroll_amt) \in Row
      BY <3>1 DEF Source
    <3> QED BY <2>2, <3>2
  <2> QED BY <2>4, <2>5
<1> QED BY <1>0, <1>7, <1>8

-----------------------------------------------------------------------------
(* Margins, modes and events.                                              *)

LEMMA ShownFlush ==
  ASSUME TypeInv, Shown, FlushScroll, UNCHANGED <<buf, topline>>
  PROVE  Shown' /\ scroll_amt' = 0
<1>1. \A r \in Row : win'[r] = buf'[r + topline']
  BY ShownFlushed DEF FlushScroll, FlushThen, Shows
<1>2. scroll_amt' = 0
  BY DEF FlushScroll, FlushThen
<1> QED BY <1>1, <1>2, ShownAfter

LEMMA ShownWindowScroll ==
  ASSUME TypeInv, Shown, NEW t \in (-savelines)..0, WindowScroll(t), ~spoiled'
  PROVE  Shown' /\ scroll_amt' = 0
<1> DEFINE i     == topline - t
           lines == Smaller(IF i > 0 THEN i ELSE -i, max_row + 1)
           still == max_row - lines + 1
           from  == IF i > 0 THEN 0 ELSE lines
           moved == Copy(win, from, still, -i)
           first == IF i > 0 THEN 0 ELSE still
           wiped == Wipe(moved, first, lines)
<1>0. /\ Numbers /\ buf \in Buffers /\ win \in Windows /\ Row = 0..max_row
      /\ t \in Int /\ topline \in Int /\ max_row \in Nat
  BY TypeNumbers, TypeFlush DEF Row, Placed, Numbers
<1>1. /\ scroll_amt = 0 /\ scroll_amt' = 0 /\ topline' = t /\ buf' = buf /\ i # 0
      /\ win' = Refreshed(wiped, buf, first, lines, scroll_amt, t)
  BY DEF WindowScroll, Spoils
<1>2. /\ i \in Int /\ lines \in 0..(max_row + 1) /\ still \in Int /\ from \in Int
      /\ first \in Int /\ lines \in Int /\ -i \in Int
  BY <1>0 DEF Smaller
<1>3. \A r \in Row :
        r \notin first..(first + lines - 1)
          => /\ r \in (from - (-i))..(from - (-i) + still - 1)
             /\ r + (-i) \in Row /\ r + (-i) + topline = r + t
  <2>1. CASE i > 0
    BY <1>0, <2>1 DEF Smaller
  <2>2. CASE ~(i > 0)
    BY <1>0, <1>1, <2>2 DEF Smaller
  <2> QED BY <2>1, <2>2
<1>4. \A r \in Row : win[r] = buf[r + topline]
  BY <1>1, NothingPending DEF Shows
<1>5. /\ moved \in Windows
      /\ \A r \in Row : moved[r]
           = IF r \in (from - (-i))..(from - (-i) + still - 1)
             THEN IF r + (-i) \in Row THEN win[r + (-i)] ELSE Garbled ELSE win[r]
  <2> HIDE DEF from, still, i
  <2> QED BY <1>0, <1>2, CopyAt
<1> HIDE DEF i, lines, still, from, moved, first
<1>6. /\ wiped \in Windows
      /\ \A r \in Row : wiped[r] = IF r \in first..(first + lines - 1) THEN Blank ELSE moved[r]
  <2>1. moved \in Windows /\ first \in Int /\ lines \in Int
    BY <1>2, <1>5
  <2> QED BY <2>1, WipeAt
<1> HIDE DEF wiped
<1>7. \A r \in Row : Source(r, 0) = r
  BY <1>0 DEF Source
<1>8. \A r \in Row : win'[r]
        = IF r \in first..(first + lines - 1) /\ Source(r, 0) \in Row
          THEN Overlay(wiped[r], buf[Source(r, 0) + t]) ELSE wiped[r]
  <2>1. 0 \in Int
    OBVIOUS
  <2> QED BY <1>0, <1>1, <1>2, <1>6, <2>1, RefreshedAt
<1> SUFFICES ASSUME NEW r \in Row PROVE win'[r] = buf[r + t]
  BY <1>1, ShownAfter
<1>9. CASE r \in first..(first + lines - 1)
  <2>1. wiped[r] = Blank
    BY <1>6, <1>9
  <2> QED BY <1>7, <1>8, <1>9, <2>1, Overlaid
<1>10. CASE r \notin first..(first + lines - 1)
  <2>1. win'[r] = win[r + (-i)]
    BY <1>3, <1>5, <1>6, <1>8, <1>10
  <2>2. win[r + (-i)] = buf[r + t]
    BY <1>3, <1>4, <1>10
  <2> QED BY <2>1, <2>2
<1> QED BY <1>9, <1>10

\* An exposure draws every row, whatever was in the window.
LEMMA ShownExpose == TypeInv /\ Expose => Shown' /\ scroll_amt' = 0
<1> SUFFICES ASSUME TypeInv, Expose PROVE Shown' /\ scroll_amt' = 0
  OBVIOUS
<1>0. /\ Numbers /\ buf \in Buffers /\ win \in Windows /\ topline \in (-savelines)..0
      /\ 0 \in Int /\ max_row + 1 \in Int
  BY TypeNumbers, TypeFlush DEF Placed, Numbers
<1>1. \A r \in Row : Redrawn(win, buf, 0, max_row + 1)[r]
        = IF r \in 0..(0 + (max_row + 1) - 1) THEN buf[r + topline] ELSE win[r]
  BY <1>0, RedrawnAt
<1>2. \A r \in Row : r \in 0..(0 + (max_row + 1) - 1)
  BY <1>0 DEF Numbers, Row
<1>3. scroll_amt' = 0 /\ UNCHANGED <<buf, topline>> /\ win' = Redrawn(win, buf, 0, max_row + 1)
  BY DEF Expose, Fixed
<1> QED BY <1>1, <1>2, <1>3, ShownAfter

-----------------------------------------------------------------------------
(* Every step keeps the window true, or says that it spoils it.            *)

Kept == Shown' /\ (jumpscroll' \/ scroll_amt' = 0)

LEMMA QuietKept ==
  ASSUME Shown, jumpscroll \/ scroll_amt = 0, Quiet, Fixed
  PROVE  Kept
BY ShownKept DEF Quiet, Fixed, Kept

LEMMA ScrollsKept ==
  ASSUME TypeInv, Shown, jumpscroll \/ scroll_amt = 0, Scrolls, ~spoiled'
  PROVE  Kept
<1>0. 1 \in Nat \ {0} /\ Count \subseteq Nat \ {0}
  BY SizeAssumption
<1>1. CASE xtermIndex
  BY <1>0, <1>1, ShownScrollUp, QuietKept DEF xtermIndex, Fixed, Kept
<1>2. CASE RevIndex
  BY <1>0, <1>2, ShownScrollDown, QuietKept DEF RevIndex, Fixed, Kept
<1>3. ASSUME NEW n \in Count, SU(n) PROVE Kept
  BY <1>0, <1>3, ShownScrollUp DEF SU, Fixed, Kept
<1>4. ASSUME NEW n \in Count, InsertLine(n) PROVE Kept
  BY <1>0, <1>4, ShownInsertLine DEF Kept
<1>5. ASSUME NEW n \in Count, DeleteLine(n) PROVE Kept
  BY <1>0, <1>5, ShownDeleteLine DEF Kept
<1> QED BY <1>1, <1>2, <1>3, <1>4, <1>5 DEF Scrolls

LEMMA TextKept ==
  ASSUME TypeInv, Shown, jumpscroll \/ scroll_amt = 0, Text, ~spoiled'
  PROVE  Kept
<1>1. CASE ClearScreen
  <2>1. top_marg \in Row /\ bot_marg \in Row /\ top_marg <= bot_marg
    BY TypeParts DEF PlaceInv
  <2>2. /\ Cleared(savedlines, top_marg, bot_marg)
        /\ UNCHANGED <<topline, margins, jumpscroll, scrollWidget>>
    BY <1>1 DEF ClearScreen, Fixed
  <2>3. Shown'
    BY <2>1, <2>2, ShownCleared
  <2>4. scroll_amt' = 0 \/ UNCHANGED scroll_amt
    BY <2>2 DEF Cleared
  <2> QED BY <2>2, <2>3, <2>4 DEF Kept
<1>2. ASSUME NEW line \in Line, Write(line) PROVE Kept
  BY <1>2, ShownWrite DEF Kept
<1>3. ASSUME NEW line \in Line, ClearBelow(line) PROVE Kept
  BY <1>3, ShownClearBelow DEF Kept
<1>4. ASSUME NEW line \in Line, ClearAbove(line) PROVE Kept
  BY <1>4, ShownClearAbove DEF Kept
<1>5. ASSUME NEW line \in Line, DECALN(line) PROVE Kept
  BY <1>5, ShownDECALN DEF Kept
<1> QED BY <1>1, <1>2, <1>3, <1>4, <1>5 DEF Text

LEMMA ModesKept ==
  ASSUME TypeInv, Shown, jumpscroll \/ scroll_amt = 0, Modes, ~spoiled'
  PROVE  Kept
<1>1. ASSUME NEW row \in Row, CursorSet(row) PROVE Kept
  BY <1>1, QuietKept DEF CursorSet
<1>2. ASSUME NEW row \in Row, MemLock(row) PROVE Kept
  BY <1>2, ShownFlush DEF MemLock, Kept
<1>3. ASSUME NEW region \in Region, DECSTBM(region[1], region[2]) PROVE Kept
  BY <1>3, ShownFlush DEF DECSTBM, Kept
<1>4. ASSUME NEW jump \in BOOLEAN, DECSCLM(jump) PROVE Kept
  <2>1. CASE jump
    <3>1. UNCHANGED <<buf, win, topline, pending, margins, scrollWidget>> /\ jumpscroll' = jump
      BY <1>4, <2>1 DEF DECSCLM
    <3>2. Shown'
      BY <3>1, ShownKept
    <3> QED BY <2>1, <3>1, <3>2 DEF Kept
  <2>2. CASE ~jump
    BY <1>4, <2>2, ShownFlush DEF DECSCLM, Kept
  <2> QED BY <2>1, <2>2
<1>5. CASE DECSTR
  <2>1. /\ UNCHANGED <<buf, win, topline, pending, jumpscroll, scrollWidget>>
        /\ scroll_amt = 0 \/ UNCHANGED margins
    BY <1>5 DEF DECSTR, Spoils
  <2>2. CASE scroll_amt = 0
    <3>1. \A r \in Row : win'[r] = buf'[r + topline']
      BY <2>1, <2>2, NothingPending DEF Shows
    <3> QED BY <2>1, <2>2, <3>1, ShownAfter DEF Kept
  <2>3. CASE UNCHANGED margins
    BY <2>1, <2>3, ShownKept DEF Kept
  <2> QED BY <2>1, <2>2, <2>3
<1>6. CASE RIS
  <2>1. /\ Cleared(0, 0, max_row) /\ UNCHANGED <<topline, scrollWidget>>
        /\ scroll_amt = 0 \/ topline = 0
    BY <1>6 DEF RIS, Spoils
  <2>2. /\ 0 \in Row /\ max_row \in Row /\ 0 <= max_row
        /\ topline = 0 => shift = 0 /\ ~(shift > max_row)
    BY TypeNumbers DEF Numbers, Row
  <2>3. Shown'
    BY <2>1, <2>2, ShownCleared
  <2>4. scroll_amt' = 0
    BY <2>1, <2>2 DEF Cleared
  <2> QED BY <2>3, <2>4 DEF Kept
<1> QED BY <1>1, <1>2, <1>3, <1>4, <1>5, <1>6 DEF Modes

\* An exposure repairs what was spoiled: the only event that needs no Shown before.
LEMMA EventsKept ==
  ASSUME TypeInv, Shown \/ Expose, Events, ~spoiled'
  PROVE  Kept
<1>1. CASE Expose
  BY <1>1, ShownExpose DEF Kept
<1>2. CASE Flush /\ Shown
  BY <1>2, ShownFlush DEF Flush, Fixed, Kept
<1>3. CASE Drag /\ Shown
  <2>1. PICK t \in (-savedlines)..0 : WindowScroll(t)
    BY <1>3 DEF Drag
  <2>2. t \in (-savelines)..0
    BY TypeParts, SizeAssumption DEF LinesInv
  <2> QED BY <1>3, <2>1, <2>2, ShownWindowScroll DEF Kept
<1>4. CASE Output /\ Shown
  <2>1. 0 \in (-savelines)..0
    BY SizeAssumption
  <2> QED BY <1>4, <2>1, ShownWindowScroll DEF Output, Kept
<1> QED BY <1>1, <1>2, <1>3, <1>4 DEF Events

\* What was spoiled stays spoiled until the window is exposed.
LEMMA SpoiledStays == Next /\ spoiled /\ ~Expose => spoiled'
<1> SUFFICES ASSUME Next, spoiled, ~Expose PROVE spoiled'
  OBVIOUS
<1> USE DEF Quiet, Spoils
<1>1. CASE Scrolls
  BY <1>1 DEF Scrolls, xtermIndex, RevIndex, SU, ScrollUp, ScrollDown, SmoothUp, InsertLine,
              DeleteLine
<1>2. CASE Text
  BY <1>2 DEF Text, Write, ClearBelow, ClearAbove, DECALN, ClearScreen
<1>3. CASE Modes
  BY <1>3 DEF Modes, CursorSet, MemLock, DECSTBM, DECSCLM, DECSTR, RIS
<1>4. CASE Events
  BY <1>4 DEF Events, Flush, Drag, Output, WindowScroll
<1> QED BY <1>1, <1>2, <1>3, <1>4 DEF Next

LEMMA IInvInit == Init => IInv
<1> SUFFICES ASSUME Init PROVE IInv
  OBVIOUS
<1>1. TypeInv
  BY TypeInit
<1>2. Shown
  <2>1. \A r \in Row : win[r] = buf[r + topline]
    BY SizeAssumption DEF Init, Row
  <2> QED BY <2>1, NothingPending DEF Init, Shows
<1> QED BY <1>1, <1>2 DEF IInv, Init

LEMMA IInvNext == IInv /\ [Next]_vars => IInv'
<1> SUFFICES ASSUME IInv, [Next]_vars, ~spoiled'
             PROVE  Kept
  BY TypeNext DEF IInv, Kept
<1>1. TypeInv
  BY DEF IInv
<1>2. CASE UNCHANGED vars
  BY <1>2, ShownKept DEF IInv, Kept
<1>3. CASE Next
  <2>1. CASE Expose
    BY <1>1, <2>1, ShownExpose DEF Kept
  <2>2. CASE ~Expose
    <3>1. Shown /\ (jumpscroll \/ scroll_amt = 0)
      BY <1>3, <2>2, SpoiledStays DEF IInv
    <3> QED BY <1>1, <1>3, <3>1, ScrollsKept, TextKept, ModesKept, EventsKept DEF Next
  <2> QED BY <2>1, <2>2
<1> QED BY <1>2, <1>3

-----------------------------------------------------------------------------
\* In every reachable state the window is right row by row, but for what the pending
\* scrolls will bring: what FlushScroll (util.c) copies is where it copies it from, and
\* what it does not touch is already what the buffer says.
THEOREM SpecIInv == Spec => []IInv
BY IInvInit, IInvNext, PTL DEF Spec

\* As soon as the pending scrolls are flushed the window shows the buffer, unless one
\* of the eight named steps spoiled it and no exposure has repaired it since: for
\* every size of the screen, margins, scroll back and order of the operations.
THEOREM WindowStaysTrue == Spec => []WindowTrue
<1>1. IInv => WindowTrue
  <2> SUFFICES ASSUME IInv PROVE WindowTrue
    OBVIOUS
  <2>1. TypeInv /\ TypeOK
    BY DEF IInv, TypeInv
  <2> QED BY <2>1, ShownFlushed, ShownWindow DEF IInv, WindowTrue
<1> QED BY <1>1, SpecIInv, PTL

-----------------------------------------------------------------------------
(* Lines outside the region, and saved lines.                              *)

\* What the operations leave of the saved lines.
LEMMA SavedRows ==
  ASSUME Placed, NEW where \in Row, NEW n \in Nat, NEW r \in (-savelines)..(-1)
  PROVE  /\ Inserted(where, n)[r] = buf[r]
         /\ Deleted(where, n)[r]
              = IF scrollWidget /\ where = 0
                THEN IF r + n <= bot_marg THEN buf[r + n] ELSE Blank
                ELSE buf[r]
         /\ \A first \in Nat, last \in Int : Erased(first, last)[r] = buf[r]
         /\ \A b \in Buffers, row \in Row, line \in Line : [b EXCEPT ![row] = line][r] = b[r]
<1>0. /\ r \in DOMAIN buf /\ r < 0 /\ r \in Int /\ where \in 0..max_row /\ bot_marg \in 0..max_row
      /\ DOMAIN buf = (-savelines)..max_row /\ savelines \in Nat /\ max_row \in Nat
  BY SizeAssumption DEF Placed, Buffers, Row
<1>1. Inserted(where, n)[r] = buf[r]
  BY <1>0 DEF Inserted
<1>2. \A first \in Nat, last \in Int : Erased(first, last)[r] = buf[r]
  BY <1>0 DEF Erased
<1>3. \A b \in Buffers, row \in Row, line \in Line : [b EXCEPT ![row] = line][r] = b[r]
  BY <1>0 DEF Buffers, Row
<1>4. CASE scrollWidget /\ where = 0
  <2>1. Deleted(where, n)[r] = IF r \in (-savelines)..(bot_marg - n) THEN buf[r + n]
                               ELSE IF r \in (-savelines)..bot_marg THEN Blank ELSE buf[r]
    BY <1>0, <1>4 DEF Deleted
  <2>2. /\ r \in (-savelines)..(bot_marg - n) <=> r + n <= bot_marg
        /\ r \in (-savelines)..bot_marg
    BY <1>0
  <2>3. ASSUME r + n <= bot_marg PROVE Deleted(where, n)[r] = buf[r + n]
    BY <2>1, <2>2, <2>3
  <2>4. ASSUME ~(r + n <= bot_marg) PROVE Deleted(where, n)[r] = Blank
    BY <2>1, <2>2, <2>4
  <2>5. Deleted(where, n)[r] = IF r + n <= bot_marg THEN buf[r + n] ELSE Blank
    BY <2>3, <2>4, Zenon
  <2> QED BY <1>1, <1>2, <1>3, <1>4, <2>5, Zenon
<1>5. CASE ~(scrollWidget /\ where = 0)
  <2>1. Deleted(where, n)[r] = IF r \in where..(bot_marg - n) THEN buf[r + n]
                               ELSE IF r \in where..bot_marg THEN Blank ELSE buf[r]
    BY <1>0, <1>5 DEF Deleted
  <2>2. r \notin where..(bot_marg - n) /\ r \notin where..bot_marg
    BY <1>0
  <2>3. Deleted(where, n)[r] = buf[r]
    BY <2>1, <2>2
  <2> QED BY <1>1, <1>2, <1>3, <1>5, <2>3, Zenon
<1> QED BY <1>4, <1>5

\* What they leave of the lines outside the region.
LEMMA OutsideRows ==
  ASSUME Placed, NEW where \in top_marg..bot_marg, NEW n \in Nat,
         NEW r \in Row \ (top_marg..bot_marg)
  PROVE  Inserted(where, n)[r] = buf[r] /\ Deleted(where, n)[r] = buf[r]
<1>0. /\ r \in DOMAIN buf /\ r \in 0..max_row /\ r \notin top_marg..bot_marg
      /\ top_marg \in 0..max_row /\ bot_marg \in 0..max_row
      /\ DOMAIN buf = (-savelines)..max_row /\ savelines \in Nat /\ max_row \in Nat
  BY SizeAssumption DEF Placed, Buffers, Row
<1>1. Inserted(where, n)[r] = buf[r]
  BY <1>0 DEF Inserted
<1> DEFINE from == IF scrollWidget /\ where = 0 THEN -savelines ELSE where
<1>2. Deleted(where, n)[r] = IF r \in from..(bot_marg - n) THEN buf[r + n]
                             ELSE IF r \in from..bot_marg THEN Blank ELSE buf[r]
  BY <1>0 DEF Deleted
<1>3. r \notin from..(bot_marg - n) /\ r \notin from..bot_marg
  BY <1>0
<1> HIDE DEF from
<1> QED BY <1>1, <1>2, <1>3

\* "All done within the scrolling region, of course" (util.c): index, reverse index,
\* SU, IL and DL change no line outside it, but for the smooth scroll by the height of
\* the region, which clears the whole screen.
THEOREM OnlyTheRegion == Spec => RegionOnly
<1>1. ASSUME TypeInv, Scrolls, NEW r \in Row \ (top_marg..bot_marg), buf'[r] # buf[r]
      PROVE  ~jumpscroll /\ AllBlank'
  <2>0. /\ Placed /\ Numbers /\ Count \subseteq Nat \ {0} /\ 1 \in Nat \ {0}
        /\ top_marg \in top_marg..bot_marg
    <3>1. Placed /\ Numbers /\ Count \subseteq Nat \ {0}
      BY <1>1, TypeFlush, TypeNumbers, SizeAssumption
    <3> QED BY <3>1 DEF Numbers
  <2>1. ASSUME NEW count \in Nat \ {0}, ScrollUp(count) PROVE ~jumpscroll /\ AllBlank'
    <3> DEFINE n == Smaller(count, Height)
    <3>1. n \in Nat
      BY <1>1, ScrolledBy
    <3>2. \/ buf' = Deleted(top_marg, n)
          \/ ~jumpscroll /\ buf' = Erased(0, max_row)
      BY <2>1 DEF ScrollUp, SmoothUp, Cleared
    <3> HIDE DEF n
    <3>3. ~jumpscroll /\ buf' = Erased(0, max_row)
      BY <1>1, <2>0, <3>1, <3>2, OutsideRows
    <3>4. \A i \in Row : Erased(0, max_row)[i] = Blank
      BY <2>0 DEF Erased, Placed, Buffers, Row, Numbers
    <3> QED BY <3>3, <3>4 DEF AllBlank, Row
  <2>2. ASSUME NEW count \in Nat \ {0}, ScrollDown(count) PROVE FALSE
    <3> DEFINE n == Smaller(count, Height)
    <3>1. n \in Nat /\ buf' = Inserted(top_marg, n)
      BY <1>1, <2>2, ScrolledBy DEF ScrollDown
    <3> QED BY <1>1, <2>0, <3>1, OutsideRows
  <2>3. ASSUME NEW count \in Nat \ {0}, InsertLine(count) \/ DeleteLine(count) PROVE FALSE
    <3> DEFINE n == Smaller(count, bot_marg - cur_row + 1)
    <3>1. InRegion
      BY <2>3 DEF InsertLine, DeleteLine
    <3>2. n \in Nat /\ cur_row \in top_marg..bot_marg
      BY <1>1, <3>1, FromCursor DEF InRegion
    <3>3. buf' = Inserted(cur_row, n) \/ buf' = Deleted(cur_row, n)
      BY <2>3 DEF InsertLine, DeleteLine
    <3> HIDE DEF n
    <3> QED BY <1>1, <2>0, <3>2, <3>3, OutsideRows
  <2>4. ~Quiet
    BY <1>1 DEF Quiet
  <2> QED BY <1>1, <2>0, <2>1, <2>2, <2>3, <2>4 DEF Scrolls, xtermIndex, RevIndex, SU
<1>2. ASSUME TypeInv, [Next]_vars
      PROVE  [(\E r \in Row \ (top_marg..bot_marg) : buf'[r] # buf[r])
                /\ (jumpscroll \/ ~AllBlank') => ~Scrolls]_vars
  BY <1>1, <1>2
<1> QED BY <1>2, TypeAlways, PTL DEF Spec, RegionOnly

-----------------------------------------------------------------------------
(* Scrolling back.                                                         *)

\* Counting in two steps, as a scroll that was put off is counted.
LEMMA CountedTwice ==
  ASSUME NEW count \in 0..savelines, NEW top, NEW a \in Nat, NEW b \in Nat
  PROVE  Counted(Counted(count, top, a), top, b) = Counted(count, top, a + b)
<1>1. CASE scrollWidget /\ top = 0
  BY <1>1, SizeAssumption DEF Counted, Smaller
<1>2. CASE ~(scrollWidget /\ top = 0)
  BY <1>2 DEF Counted
<1> QED BY <1>1, <1>2

LEMMA CountedNone == \A count, top : \A n \in Int : n <= 0 => Counted(count, top, n) = count
BY DEF Counted

\* Nothing is counted less, and no saved line changes.
LEMMA ReachKept ==
  ASSUME TypeInv, Reachable, FlushedSaved' \in Int, FlushedSaved' >= FlushedSaved,
         \A r \in (-savelines)..(-1) : buf'[r] = buf[r]
  PROVE  Reachable'
<1>1. FlushedSaved \in Int /\ savelines \in Nat
  BY TypeFlush, SizeAssumption
<1> SUFFICES ASSUME NEW r \in (-savelines)..(-1), buf'[r] # Blank PROVE -r <= FlushedSaved'
  BY DEF Reachable
<1>2. -r <= FlushedSaved /\ r \in Int
  BY DEF Reachable
<1> QED BY <1>1, <1>2

\* n lines leave the region from row where on, and are counted.
LEMMA ReachDeleted ==
  ASSUME TypeInv, Reachable, NEW where \in Row, NEW n \in Nat, buf' = Deleted(where, n),
         FlushedSaved' = Counted(FlushedSaved, where, n)
  PROVE  Reachable'
<1>0. FlushedSaved \in 0..savelines /\ savelines \in Nat /\ Placed
  BY TypeFlush, SizeAssumption
<1> SUFFICES ASSUME NEW r \in (-savelines)..(-1), buf'[r] # Blank PROVE -r <= FlushedSaved'
  BY DEF Reachable
<1>1. /\ r \in Int /\ r < 0 /\ -r <= savelines
      /\ Deleted(where, n)[r] = IF scrollWidget /\ where = 0
                                THEN IF r + n <= bot_marg THEN buf[r + n] ELSE Blank
                                ELSE buf[r]
  BY <1>0, SavedRows
<1>2. CASE scrollWidget /\ where = 0
  <2>1. buf[r + n] # Blank
    BY <1>1, <1>2
  <2>2. -(r + n) <= FlushedSaved
    <3>1. CASE r + n < 0
      <4>1. r + n \in (-savelines)..(-1)
        BY <1>0, <1>1, <3>1
      <4> QED BY <2>1, <4>1 DEF Reachable
    <3>2. CASE ~(r + n < 0)
      BY <1>0, <1>1, <3>2
    <3> QED BY <3>1, <3>2
  <2>3. CASE n > 0
    <3>1. FlushedSaved' = Smaller(FlushedSaved + n, savelines)
      BY <1>2, <2>3 DEF Counted
    <3> QED BY <1>0, <1>1, <2>2, <3>1 DEF Smaller
  <2>4. CASE n = 0
    <3>1. FlushedSaved' = FlushedSaved
      BY <2>4, CountedNone
    <3> QED BY <1>0, <1>1, <2>2, <2>4, <3>1
  <2> QED BY <2>3, <2>4
<1>3. CASE ~(scrollWidget /\ where = 0)
  <2>1. FlushedSaved' = FlushedSaved /\ buf'[r] = buf[r]
    BY <1>1, <1>3 DEF Counted
  <2> QED BY <2>1 DEF Reachable
<1> QED BY <1>2, <1>3

\* The count after a step that keeps the mode and the top margin.
LEMMA CountAfter ==
  ASSUME UNCHANGED scrollWidget
  PROVE  FlushedSaved' = Counted(savedlines', top_marg', scroll_amt')
BY DEF FlushedSaved, Counted, Smaller

LEMMA FlushThenCounts ==
  ASSUME TypeInv, UNCHANGED scrollWidget, NEW amt \in Int, FlushThen(amt),
         UNCHANGED top_marg \/ amt = 0
  PROVE  FlushedSaved' = Counted(FlushedSaved, top_marg, amt)
<1>1. FlushedSaved' = Counted(FlushedSaved, top_marg', amt)
  BY CountAfter DEF FlushThen
<1>2. CASE amt = 0
  BY <1>1, <1>2, CountedNone
<1> QED BY <1>1, <1>2

LEMMA FlushKeepsReach ==
  ASSUME TypeInv, Reachable, UNCHANGED <<buf, scrollWidget>>, FlushScroll
  PROVE  Reachable'
<1>1. FlushThen(0) /\ 0 \in Int
  BY DEF FlushScroll
<1>2. FlushedSaved' = FlushedSaved
  BY <1>1, FlushThenCounts, CountedNone
<1> QED BY <1>2, ReachKept, TypeFlush, SizeAssumption

LEMMA ClearKeepsReach ==
  ASSUME TypeInv, Reachable, UNCHANGED <<top_marg, scrollWidget>>, NEW last,
         Cleared(savedlines, top_marg, last)
  PROVE  Reachable'
<1>1. Placed /\ 0 \in Row /\ 0 \in Nat /\ max_row \in Int
  BY TypeFlush, TypeNumbers DEF Numbers, Row
<1>2. \A r \in (-savelines)..(-1) : buf'[r] = buf[r]
  BY <1>1, SavedRows DEF Cleared
<1>3. FlushedSaved' = FlushedSaved
  <2>1. CASE shift > max_row
    BY <2>1, CountAfter DEF Cleared, FlushedSaved
  <2>2. CASE ~(shift > max_row)
    <3>1. savedlines' = FlushedSaved /\ scroll_amt' = 0
      BY <2>2 DEF Cleared, FlushedSaved
    <3> QED BY <3>1, CountAfter, CountedNone
  <2> QED BY <2>1, <2>2
<1> QED BY <1>2, <1>3, ReachKept, TypeFlush, SizeAssumption

LEMMA QuietKeepsReach ==
  ASSUME Reachable, UNCHANGED <<buf, savedlines, pending, top_marg, scrollWidget>>
  PROVE  Reachable'
BY DEF Reachable, FlushedSaved, Counted, Smaller

LEMMA PostponeCounts ==
  ASSUME TypeInv, UNCHANGED <<top_marg, scrollWidget>>, NEW n \in Nat, NEW ref, scroll_amt >= 0,
         Postpone(n, ref)
  PROVE  FlushedSaved' = Counted(FlushedSaved, top_marg, n)
<1>1. savedlines \in 0..savelines /\ scroll_amt \in Nat
  <2>1. savedlines \in 0..savelines /\ scroll_amt \in Int
    BY TypeParts DEF LinesInv, PendingInv
  <2> QED BY <2>1
<1>2. savedlines' = savedlines /\ scroll_amt' = scroll_amt + n
  BY DEF Postpone
<1>3. FlushedSaved' = Counted(savedlines, top_marg, scroll_amt + n)
  BY <1>2, CountAfter
<1> QED BY <1>1, <1>3, CountedTwice DEF FlushedSaved

LEMMA ScrollUpKeepsReach ==
  ASSUME TypeInv, Reachable, NEW count \in Nat \ {0}, ScrollUp(count),
         UNCHANGED <<top_marg, scrollWidget>>
  PROVE  Reachable'
<1> DEFINE n == Smaller(count, Height)
<1>0. n \in Nat /\ n \in Int /\ top_marg \in Row
  BY ScrolledBy, TypeParts DEF PlaceInv
<1>1. \/ /\ buf' = Deleted(top_marg, n)
         /\ (scroll_amt > 0 /\ Postpone(n, n)) \/ FlushThen(n)
      \/ Cleared(savedlines, top_marg, bot_marg)
      \/ SmoothUp(n)
  BY DEF ScrollUp
<1> HIDE DEF n
<1>2. CASE buf' = Deleted(top_marg, n) /\ scroll_amt > 0 /\ Postpone(n, n)
  <2>1. scroll_amt >= 0
    BY <1>2, TypeNumbers DEF Numbers
  <2>2. FlushedSaved' = Counted(FlushedSaved, top_marg, n)
    BY <1>0, <1>2, <2>1, PostponeCounts
  <2> QED BY <1>0, <1>2, <2>2, ReachDeleted
<1>3. CASE buf' = Deleted(top_marg, n) /\ FlushThen(n)
  <2>1. FlushedSaved' = Counted(FlushedSaved, top_marg, n)
    BY <1>0, <1>3, FlushThenCounts
  <2> QED BY <1>0, <1>3, <2>1, ReachDeleted
<1>4. CASE Cleared(savedlines, top_marg, bot_marg)
  BY <1>4, ClearKeepsReach
<1>5. CASE SmoothUp(n)
  <2>1. /\ buf' = Deleted(top_marg, n) /\ savedlines' = Counted(savedlines, top_marg, n)
        /\ scroll_amt' = scroll_amt
    BY <1>5 DEF SmoothUp
  <2>2. savedlines \in 0..savelines /\ scroll_amt \in Int
    BY TypeParts DEF LinesInv, PendingInv
  <2>3. FlushedSaved' = Counted(Counted(savedlines, top_marg, n), top_marg, scroll_amt)
    BY <2>1, CountAfter
  <2>4. FlushedSaved' = Counted(FlushedSaved, top_marg, n)
    <3>1. CASE scroll_amt > 0
      <4>1. scroll_amt \in Nat /\ n + scroll_amt = scroll_amt + n
        BY <1>0, <2>2, <3>1
      <4>2. FlushedSaved' = Counted(savedlines, top_marg, n + scroll_amt)
        BY <1>0, <2>2, <2>3, <4>1, CountedTwice
      <4>3. Counted(FlushedSaved, top_marg, n) = Counted(savedlines, top_marg, scroll_amt + n)
        BY <1>0, <2>2, <4>1, CountedTwice DEF FlushedSaved
      <4> QED BY <4>1, <4>2, <4>3
    <3>2. CASE ~(scroll_amt > 0)
      <4>1. scroll_amt <= 0
        BY <2>2, <3>2
      <4> QED BY <2>2, <2>3, <4>1, CountedNone DEF FlushedSaved
    <3> QED BY <3>1, <3>2
  <2> QED BY <1>0, <2>1, <2>4, ReachDeleted
<1> QED BY <1>1, <1>2, <1>3, <1>4, <1>5

\* Lines that are inserted take none of the saved ones.
LEMMA InsertKeepsReach ==
  ASSUME TypeInv, Reachable, NEW where \in Row, NEW n \in Nat, buf' = Inserted(where, n),
         UNCHANGED <<top_marg, scrollWidget>>,
         \/ savedlines' = FlushedSaved /\ scroll_amt' \in Int /\ scroll_amt' <= 0
         \/ scroll_amt <= 0 /\ UNCHANGED savedlines /\ scroll_amt' \in Int /\ scroll_amt' <= 0
         \/ UNCHANGED <<savedlines, pending>>
  PROVE  Reachable'
<1>1. Placed /\ scroll_amt \in Int
  BY TypeFlush DEF Placed
<1>2. \A r \in (-savelines)..(-1) : buf'[r] = buf[r]
  BY <1>1, SavedRows
<1>3. FlushedSaved' = FlushedSaved
  <2>1. CASE savedlines' = FlushedSaved /\ scroll_amt' \in Int /\ scroll_amt' <= 0
    BY <2>1, CountAfter, CountedNone
  <2>2. CASE scroll_amt <= 0 /\ UNCHANGED savedlines /\ scroll_amt' \in Int /\ scroll_amt' <= 0
    BY <1>1, <2>2, CountAfter, CountedNone DEF FlushedSaved
  <2>3. CASE UNCHANGED <<savedlines, pending>>
    BY <2>3, CountAfter DEF FlushedSaved
  <2> QED BY <2>1, <2>2, <2>3
<1> QED BY <1>2, <1>3, ReachKept, TypeFlush, SizeAssumption

LEMMA ScrollDownKeepsReach ==
  ASSUME TypeInv, Reachable, NEW count \in Nat \ {0}, ScrollDown(count),
         UNCHANGED <<top_marg, scrollWidget>>
  PROVE  Reachable'
<1> DEFINE n == Smaller(count, Height)
<1>0. n \in Nat /\ n \in Int /\ top_marg \in Row /\ scroll_amt \in Int
  BY ScrolledBy, TypeParts DEF PlaceInv, LinesInv, PendingInv
<1>1. /\ buf' = Inserted(top_marg, n)
      /\ \/ scroll_amt < 0 /\ Postpone(-n, -n)
         \/ FlushThen(-n)
         \/ UNCHANGED <<savedlines, pending>>
  BY DEF ScrollDown
<1> HIDE DEF n
<1>2. \/ savedlines' = FlushedSaved /\ scroll_amt' \in Int /\ scroll_amt' <= 0
      \/ scroll_amt <= 0 /\ UNCHANGED savedlines /\ scroll_amt' \in Int /\ scroll_amt' <= 0
      \/ UNCHANGED <<savedlines, pending>>
  BY <1>0, <1>1 DEF Postpone, FlushThen
<1> QED BY <1>0, <1>1, <1>2, InsertKeepsReach

LEMMA LinesKeepReach ==
  ASSUME TypeInv, Reachable, NEW count \in Nat \ {0}, InsertLine(count) \/ DeleteLine(count)
  PROVE  Reachable'
<1> DEFINE n == Smaller(count, bot_marg - cur_row + 1)
<1>0. /\ InRegion /\ cur_row \in Row /\ scroll_amt \in Int /\ UNCHANGED <<top_marg, scrollWidget>>
      /\ top_marg \in Row
  BY TypeParts DEF InsertLine, DeleteLine, Fixed, PlaceInv, LinesInv, PendingInv
<1>1. n \in Nat /\ n \in Int
  BY <1>0, FromCursor
<1>2. CASE InsertLine(count)
  <2>1. /\ buf' = Inserted(cur_row, n)
        /\ \/ scroll_amt <= 0 /\ Postpone(-n, -n)
           \/ FlushThen(-n)
           \/ savedlines' = FlushedSaved /\ scroll_amt' = 0
    BY <1>2 DEF InsertLine
  <2> HIDE DEF n
  <2>2. \/ savedlines' = FlushedSaved /\ scroll_amt' \in Int /\ scroll_amt' <= 0
        \/ scroll_amt <= 0 /\ UNCHANGED savedlines /\ scroll_amt' \in Int /\ scroll_amt' <= 0
    BY <1>0, <1>1, <2>1 DEF Postpone, FlushThen
  <2> QED BY <1>0, <1>1, <2>1, <2>2, InsertKeepsReach
<1>3. CASE DeleteLine(count)
  <2>1. /\ buf' = Deleted(cur_row, n)
        /\ \/ scroll_amt >= 0 /\ cur_row = top_marg /\ Postpone(n, n)
           \/ cur_row = top_marg /\ FlushThen(n)
           \/ savedlines' = Counted(FlushedSaved, cur_row, n) /\ scroll_amt' = 0
    BY <1>3 DEF DeleteLine
  <2> HIDE DEF n
  <2>2. FlushedSaved' = Counted(FlushedSaved, cur_row, n)
    <3>1. CASE scroll_amt >= 0 /\ cur_row = top_marg /\ Postpone(n, n)
      BY <1>0, <1>1, <3>1, PostponeCounts
    <3>2. CASE cur_row = top_marg /\ FlushThen(n)
      BY <1>0, <1>1, <3>2, FlushThenCounts
    <3>3. CASE savedlines' = Counted(FlushedSaved, cur_row, n) /\ scroll_amt' = 0
      BY <1>0, <3>3, CountAfter, CountedNone
    <3> QED BY <2>1, <3>1, <3>2, <3>3
  <2> QED BY <1>0, <1>1, <2>1, <2>2, ReachDeleted
<1> QED BY <1>2, <1>3

\* Text, erasures and scrolling of the window leave the saved lines alone.
LEMMA SameKeepsReach ==
  ASSUME TypeInv, Reachable, UNCHANGED <<top_marg, scrollWidget>>,
         \A r \in (-savelines)..(-1) : buf'[r] = buf[r],
         \/ savedlines' = FlushedSaved /\ scroll_amt' = 0
         \/ UNCHANGED <<savedlines, scroll_amt>>
  PROVE  Reachable'
<1>1. FlushedSaved' = FlushedSaved
  <2>1. CASE savedlines' = FlushedSaved /\ scroll_amt' = 0
    BY <2>1, CountAfter, CountedNone
  <2>2. CASE UNCHANGED <<savedlines, scroll_amt>>
    BY <2>2, CountAfter DEF FlushedSaved
  <2> QED BY <2>1, <2>2
<1> QED BY <1>1, ReachKept, TypeFlush, SizeAssumption

LEMMA TextKeepsReach == ASSUME TypeInv, Reachable, Text PROVE Reachable'
<1>0. /\ Placed /\ cur_row \in Row /\ cur_row \in Nat /\ 0 \in Row /\ max_row \in Int
      /\ cur_row + 1 \in Nat /\ cur_row - 1 \in Int /\ 0 \in Nat /\ buf \in Buffers
      /\ max_row \in Nat
  BY TypeFlush, TypeNumbers, TypeParts DEF Placed, Numbers, Row, LinesInv
<1>1. /\ \A first \in Nat, last \in Int :
           /\ Erased(first, last) \in Buffers
           /\ \A r \in (-savelines)..(-1) : Erased(first, last)[r] = buf[r]
      /\ \A b \in Buffers, line \in Line :
           \A r \in (-savelines)..(-1) : [b EXCEPT ![cur_row] = line][r] = b[r]
  BY <1>0, SavedRows, ChangedBuffers
<1>2. ASSUME NEW line \in Line, Write(line) PROVE Reachable'
  <2>1. /\ \A r \in (-savelines)..(-1) : buf'[r] = buf[r]
        /\ UNCHANGED <<top_marg, scrollWidget>>
    BY <1>0, <1>1, <1>2 DEF Write, Fixed
  <2>2. \/ savedlines' = FlushedSaved /\ scroll_amt' = 0
        \/ UNCHANGED <<savedlines, scroll_amt>>
    BY <1>2 DEF Write
  <2> QED BY <2>1, <2>2, SameKeepsReach
<1>3. ASSUME NEW line \in Line, ClearBelow(line) PROVE Reachable'
  <2>1. \A r \in (-savelines)..(-1) : buf'[r] = buf[r]
    <3> DEFINE e == Erased(cur_row + 1, max_row)
    <3>1. e \in Buffers /\ \A r \in (-savelines)..(-1) : e[r] = buf[r]
      BY <1>0, <1>1
    <3>2. buf' = [e EXCEPT ![cur_row] = line]
      BY <1>3 DEF ClearBelow
    <3> HIDE DEF e
    <3> QED BY <1>1, <3>1, <3>2
  <2>2. /\ UNCHANGED <<top_marg, scrollWidget>>
        /\ \/ savedlines' = FlushedSaved /\ scroll_amt' = 0
           \/ UNCHANGED <<savedlines, scroll_amt>>
    BY <1>3 DEF ClearBelow, Fixed
  <2> QED BY <2>1, <2>2, SameKeepsReach
<1>4. ASSUME NEW line \in Line, ClearAbove(line) PROVE Reachable'
  <2>1. \A r \in (-savelines)..(-1) : buf'[r] = buf[r]
    <3> DEFINE e == Erased(0, cur_row - 1)
    <3>1. e \in Buffers /\ \A r \in (-savelines)..(-1) : e[r] = buf[r]
      BY <1>0, <1>1
    <3>2. buf' = [e EXCEPT ![cur_row] = IF Visible THEN line ELSE @]
      BY <1>4 DEF ClearAbove
    <3> HIDE DEF e
    <3>3. buf' = [e EXCEPT ![cur_row] = line] \/ buf' = e
      BY <1>0, <3>1, <3>2 DEF Buffers
    <3>4. CASE buf' = e
      BY <3>1, <3>4
    <3>5. CASE buf' = [e EXCEPT ![cur_row] = line]
      BY <1>1, <3>1, <3>5
    <3> QED BY <3>3, <3>4, <3>5
  <2>2. /\ UNCHANGED <<top_marg, scrollWidget>>
        /\ \/ savedlines' = FlushedSaved /\ scroll_amt' = 0
           \/ UNCHANGED <<savedlines, scroll_amt>>
    BY <1>4 DEF ClearAbove, Fixed
  <2> QED BY <2>1, <2>2, SameKeepsReach
<1>5. ASSUME NEW line \in Line, DECALN(line) PROVE Reachable'
  <2>1. \A r \in (-savelines)..(-1) : buf'[r] = buf[r]
    <3>1. /\ buf' = [r \in DOMAIN buf |-> IF r \in Row THEN line ELSE buf[r]]
          /\ \A r \in (-savelines)..(-1) : r \in DOMAIN buf /\ r \notin Row
      BY <1>0, <1>5, SizeAssumption DEF DECALN, Buffers, Row
    <3> QED BY <3>1
  <2>2. /\ UNCHANGED <<top_marg, scrollWidget>>
        /\ UNCHANGED <<savedlines, scroll_amt>>
    BY <1>5 DEF DECALN, Fixed
  <2> QED BY <2>1, <2>2, SameKeepsReach
<1>6. CASE ClearScreen
  BY <1>6, ClearKeepsReach DEF ClearScreen, Fixed
<1> QED BY <1>2, <1>3, <1>4, <1>5, <1>6 DEF Text

LEMMA ModesKeepReach == ASSUME TypeInv, Reachable, Modes, ~RIS PROVE Reachable'
<1>1. ASSUME NEW row \in Row, CursorSet(row) PROVE Reachable'
  BY <1>1, QuietKeepsReach DEF CursorSet, Quiet, Fixed
<1>2. ASSUME NEW row \in Row, MemLock(row) PROVE Reachable'
  BY <1>2, FlushKeepsReach DEF MemLock
<1>3. ASSUME NEW region \in Region, DECSTBM(region[1], region[2]) PROVE Reachable'
  BY <1>3, FlushKeepsReach DEF DECSTBM
<1>4. ASSUME NEW jump \in BOOLEAN, DECSCLM(jump) PROVE Reachable'
  <2>1. CASE jump
    BY <1>4, <2>1, QuietKeepsReach DEF DECSCLM
  <2>2. CASE ~jump
    BY <1>4, <2>2, FlushKeepsReach DEF DECSCLM
  <2> QED BY <2>1, <2>2
<1>5. CASE DECSTR
  <2>1. /\ UNCHANGED <<buf, savedlines, scroll_amt, scrollWidget>> /\ top_marg' = 0
    BY <1>5 DEF DECSTR
  <2>2. FlushedSaved' = Counted(savedlines, 0, scroll_amt)
    BY <2>1, CountAfter
  <2>3. savedlines \in 0..savelines /\ scroll_amt \in Int
    BY TypeParts DEF LinesInv, PendingInv
  <2>4. FlushedSaved' \in Int /\ FlushedSaved' >= FlushedSaved
    <3>1. CASE scrollWidget
      BY <2>2, <2>3, <3>1, SizeAssumption DEF FlushedSaved, Counted, Smaller
    <3>2. CASE ~scrollWidget
      BY <2>2, <2>3, <3>2, SizeAssumption DEF FlushedSaved, Counted
    <3> QED BY <3>1, <3>2
  <2> QED BY <2>1, <2>4, ReachKept
<1> QED BY <1>1, <1>2, <1>3, <1>4, <1>5 DEF Modes

LEMMA EventsKeepReach == ASSUME TypeInv, Reachable, Events PROVE Reachable'
<1>1. CASE Flush
  BY <1>1, FlushKeepsReach DEF Flush, Fixed
<1>2. CASE Drag \/ Output \/ Expose
  <2>1. UNCHANGED <<buf, savedlines, pending, top_marg, scrollWidget>>
    BY <1>2 DEF Drag, Output, Expose, WindowScroll, Fixed
  <2> QED BY <2>1, QuietKeepsReach
<1> QED BY <1>1, <1>2 DEF Events

LEMMA ScrollsKeepReach == ASSUME TypeInv, Reachable, Scrolls PROVE Reachable'
<1>0. 1 \in Nat \ {0} /\ Count \subseteq Nat \ {0}
  BY SizeAssumption
<1>1. CASE xtermIndex
  BY <1>0, <1>1, ScrollUpKeepsReach, QuietKeepsReach DEF xtermIndex, Quiet, Fixed
<1>2. CASE RevIndex
  BY <1>0, <1>2, ScrollDownKeepsReach, QuietKeepsReach DEF RevIndex, Quiet, Fixed
<1>3. ASSUME NEW n \in Count, SU(n) PROVE Reachable'
  BY <1>0, <1>3, ScrollUpKeepsReach DEF SU, Fixed
<1>4. ASSUME NEW n \in Count, InsertLine(n) \/ DeleteLine(n) PROVE Reachable'
  BY <1>0, <1>4, LinesKeepReach
<1> QED BY <1>1, <1>2, <1>3, <1>4 DEF Scrolls

\* A line that went off at the top can be scrolled back to as long as it is kept: no
\* scroll, put off, flushed, joined or smooth, and no change of margins or modes makes
\* savedlines (and what FlushScroll will add to it) forget a line that has text; only
\* the full reset does.
THEOREM SavedLinesStay == Spec => SavedStaysReachable
<1>1. ASSUME TypeInv, [Next]_vars PROVE [Reachable /\ ~Reachable' => RIS]_vars
  <2> SUFFICES ASSUME Reachable, Next, ~RIS PROVE Reachable'
    BY <1>1
  <2> QED BY <1>1, ScrollsKeepReach, TextKeepsReach, ModesKeepReach, EventsKeepReach DEF Next
<1> QED BY <1>1, TypeAlways, PTL DEF Spec, SavedStaysReachable
=============================================================================
