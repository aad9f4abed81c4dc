------------------------------ MODULE VTProofs ------------------------------
(***************************************************************************)
(* What holds of VTCursor for windows of every size, every numeric         *)
(* parameter and every choice of resources; and of VTParser for every set  *)
(* of bytes, every terminal and all lengths of text and strings.  The two  *)
(* look at the same terminal and share no variable.                        *)
(***************************************************************************)
EXTENDS VTCursor, VTParser, WellFoundedInduction, TLAPS

\* Shorthands for the definitions that nearly every step expands.
USE DEF size, cursor, region, saved, vars, Smaller, Larger, Param

-----------------------------------------------------------------------------
(* The helpers.                                                            *)

LEMMA Least ==
  ASSUME NEW T \in SUBSET Nat, T # {}
  PROVE  \E t \in T : \A u \in T : t <= u
<1> DEFINE R == OpToRel(<, Nat)
<1>1. PICK t \in T : \A u \in T : <<u, t>> \notin R
  <2> HIDE DEF R
  <2> QED BY NatLessThanWellFounded, WFMin DEF R
<1>2. \A u \in T : ~(u < t)
  BY <1>1 DEF OpToRel
<1> QED BY <1>2

LEMMA Greatest ==
  ASSUME NEW N \in Nat, NEW T \in SUBSET (0..N), T # {}
  PROVE  \E t \in T : \A u \in T : t >= u
<1> DEFINE D == {N - t : t \in T}
<1>1. D \in SUBSET Nat /\ D # {}
  <2>1. \A t \in T : t \in Int /\ N - t \in Nat
    OBVIOUS
  <2>2. PICK t \in T : TRUE
    OBVIOUS
  <2>3. N - t \in D
    BY <2>2
  <2>4. \A d \in D : d \in Nat
    BY <2>1
  <2> QED BY <2>3, <2>4
<1>2. PICK d \in D : \A e \in D : d <= e
  <2> HIDE DEF D
  <2> QED BY <1>1, Least
<1>3. PICK t \in T : d = N - t
  BY <1>2
<1>4. ASSUME NEW u \in T PROVE t >= u
  <2>1. N - u \in D
    OBVIOUS
  <2>2. N - t <= N - u
    BY <1>2, <1>3, <2>1
  <2> QED BY <2>2
<1> QED BY <1>4

LEMMA TabNextType ==
  ASSUME TypeOK, NEW col \in Nat
  PROVE  TabNext(col) \in Nat \cup {MAX_TABS - 1}
         /\ (TabNext(col) > col \/ TabNext(col) = MAX_TABS - 1)
<1> DEFINE stops == {t \in tabs : t > col}
<1>1. CASE stops = {}
  BY <1>1 DEF TabNext
<1>2. CASE stops # {}
  <2>1. stops \in SUBSET Nat
    <3>1. \A t \in tabs : t \in Nat
      BY SizeAssumption DEF TypeOK
    <3> QED BY <3>1
  <2>2. \E t \in stops : \A u \in stops : t <= u
    <3> HIDE DEF stops
    <3> QED BY <1>2, <2>1, Least
  <2>3. TabNext(col) = CHOOSE t \in stops : \A u \in stops : t <= u
    BY <1>2 DEF TabNext
  <2>4. TabNext(col) \in stops
    BY <2>2, <2>3
  <2> QED BY <2>1, <2>4
<1> QED BY <1>1, <1>2

LEMMA TabPrevType ==
  ASSUME TypeOK
  PROVE  TabPrev(cur_col) \in 0..cur_col
<1> DEFINE stops == {t \in tabs : t < cur_col}
<1>1. CASE stops = {}
  BY <1>1 DEF TabPrev, TypeOK
<1>2. CASE stops # {}
  <2>1. stops \in SUBSET (0..cur_col) /\ cur_col \in Nat
    <3>1. cur_col \in Nat /\ \A t \in tabs : t \in Nat
      BY SizeAssumption DEF TypeOK
    <3>2. \A t \in stops : t \in 0..cur_col
      BY <3>1
    <3> QED BY <3>1, <3>2
  <2>2. \E t \in stops : \A u \in stops : t >= u
    <3> HIDE DEF stops
    <3> QED BY <1>2, <2>1, Greatest
  <2>3. TabPrev(cur_col) = CHOOSE t \in stops : \A u \in stops : t >= u
    BY <1>2 DEF TabPrev
  <2>4. TabPrev(cur_col) \in stops
    BY <2>2, <2>3
  <2> QED BY <2>1, <2>4
<1> QED BY <1>1, <1>2

LEMMA SetRowType ==
  ASSUME max_row \in Nat, NEW row \in Int, NEW fl,
         NEW top \in Int, NEW bot \in 0..max_row
  PROVE  SetRow(row, fl, top, bot) \in 0..max_row
BY DEF SetRow

LEMMA DownRowType ==
  ASSUME TypeOK, NEW r \in 0..(max_row + 1), NEW n \in Nat
  PROVE  DownRow(r, n) \in 0..max_row
BY DEF TypeOK, DownRow

LEMMA UpRowType ==
  ASSUME TypeOK, NEW r \in 0..(max_row + 1), NEW n \in Nat
  PROVE  UpRow(r, n) \in 0..r
BY DEF TypeOK, UpRow

LEMMA IndexRowType ==
  ASSUME TypeOK, NEW r \in 0..(max_row + 1)
  PROVE  IndexRow(r, 1) \in 0..max_row
<1>1. r \in Int /\ bot_marg \in Int /\ (r <= bot_marg => bot_marg - r \in Nat)
  BY DEF TypeOK
<1> QED BY <1>1, DownRowType DEF IndexRow

LEMMA RevIndexRowType ==
  ASSUME TypeOK, NEW r \in 0..(max_row + 1)
  PROVE  RevIndexRow(r, 1) \in 0..r
<1>1. r \in Int /\ top_marg \in Int /\ (r >= top_marg => r - top_marg \in Nat)
  BY DEF TypeOK
<1> QED BY <1>1, UpRowType DEF RevIndexRow

\* A cell counted back over the start of the screen is a cell of it, or the one
\* that would follow the last.
LEMMA BackCellType ==
  ASSUME TypeOK, NEW n \in Nat, cur_col - n < 0
  PROVE  BackCell(n) \in 0..((max_col + 1) * (max_row + 1))
<1> DEFINE width == max_col + 1
           cells == width * (max_row + 1)
           i     == width * cur_row + cur_col - n
<1>1. /\ width \in Nat \ {0} /\ max_row + 1 \in Nat \ {0}
      /\ cur_row \in 0..(max_row + 1) /\ cur_col \in Nat
  BY DEF TypeOK
<1>2. cells \in Nat \ {0} /\ width * cur_row \in Nat /\ width * cur_row <= cells
  <2> HIDE DEF width
  <2> QED BY <1>1
<1>3. i \in Int /\ i < cells
  <2> HIDE DEF cells, width
  <2> QED BY <1>1, <1>2
<1>4. CASE i >= 0
  <2>1. BackCell(n) = IF i < 0 THEN i + ((-i) \div cells + 1) * cells ELSE i
    BY DEF BackCell
  <2>2. BackCell(n) = i
    <3> HIDE DEF i, cells
    <3> QED BY <1>3, <1>4, <2>1
  <2>3. BackCell(n) \in 0..cells
    <3> HIDE DEF i, cells
    <3> QED BY <1>2, <1>3, <1>4, <2>2
  <2> QED BY <2>3
<1>5. CASE i < 0
  <2> DEFINE q == (-i) \div cells
             r == (-i) % cells
  <2>1. q \in Int /\ r \in 0..(cells - 1) /\ -i = cells * q + r
    <3> HIDE DEF cells, i
    <3> QED BY <1>2, <1>3, Z3
  <2>2. i + (q + 1) * cells = cells - r
    <3> HIDE DEF cells, i, q, r
    <3> QED BY <1>2, <1>3, <2>1, Z3
  <2>3. BackCell(n) = cells - r
    <3>1. BackCell(n) = IF i < 0 THEN i + (q + 1) * cells ELSE i
      BY DEF BackCell
    <3> HIDE DEF cells, i, q, r
    <3> QED BY <1>5, <2>2, <3>1
  <2>4. cells - r \in 0..cells
    <3> HIDE DEF cells, q, r
    <3> QED BY <1>2, <2>1
  <2> QED BY <2>3, <2>4
<1> QED BY <1>3, <1>4, <1>5

LEMMA DivMod ==
  ASSUME NEW w \in Nat \ {0}, NEW h \in Nat, NEW i \in 0..(w * h)
  PROVE  i \div w \in 0..h /\ i % w \in 0..(w - 1)
<1>1. /\ i \in Nat /\ w * h \in Nat
      /\ i \div w \in Int /\ i % w \in 0..(w - 1) /\ i = w * (i \div w) + (i % w)
  BY Z3
<1>2. i \div w >= 0
  BY <1>1, Z3
<1>3. i \div w <= h
  <2> SUFFICES ASSUME i \div w >= h + 1 PROVE FALSE
    BY <1>1
  <2>1. w * (i \div w) >= w * (h + 1)
    BY <1>1, Z3
  <2>2. w * (h + 1) = w * h + w
    BY Z3
  <2> QED BY <1>1, <2>1, <2>2
<1> QED BY <1>1, <1>2, <1>3

-----------------------------------------------------------------------------
(* Typing.                                                                 *)

\* What the tails of the operations assign.
CursorType == cur_row' \in 0..(max_row + 1) /\ cur_col' \in 0..max_col
              /\ do_wrap' \in BOOLEAN

LEMMA CursorSetType ==
  ASSUME TypeOK, NEW row \in Int, NEW col \in Int, NEW fl, NEW top \in Int,
         NEW bot \in 0..max_row, CursorSet(row, col, fl, top, bot)
  PROVE  CursorType /\ cur_row' <= max_row
<1>1. cur_row' \in 0..max_row
  BY SetRowType DEF CursorSet, TypeOK
<1>2. cur_col' \in 0..max_col /\ do_wrap' = FALSE
  BY DEF CursorSet, TypeOK
<1>3. cur_row' \in 0..(max_row + 1) /\ cur_row' <= max_row
  BY <1>1 DEF TypeOK
<1>4. do_wrap' \in BOOLEAN
  BY <1>2
<1> QED BY <1>2, <1>3, <1>4 DEF CursorType

LEMMA MoveToType ==
  ASSUME TypeOK, NEW row \in 0..(max_row + 1), NEW col \in 0..max_col,
         MoveTo(row, col)
  PROVE  CursorType
BY DEF CursorType, MoveTo

LEMMA StillType ==
  ASSUME TypeOK, CursorType, Still
  PROVE  TypeOK'
BY DEF CursorType, Still, TypeOK

LEMMA RestoreType ==
  ASSUME TypeOK, NEW s \in SavedCursor, Restore(s)
  PROVE  CursorType /\ cur_row' <= max_row /\ flags' \in SUBSET Flag
<1>1. /\ s.row \in Nat /\ s.col \in Nat /\ s.flags \in SUBSET DECSC_FLAGS
      /\ top_marg \in Int /\ bot_marg \in 0..max_row
  BY DEF SavedCursor, TypeOK
<1>2. flags' \in SUBSET Flag
  BY <1>1 DEF Restore, TypeOK, Flag, DECSC_FLAGS
<1>3. (IF "ORIGIN" \in s.flags THEN s.row - top_marg ELSE s.row) \in Int
  BY <1>1
<1>4. CursorSet(IF "ORIGIN" \in s.flags THEN s.row - top_marg ELSE s.row,
                s.col, flags', top_marg, bot_marg)
  BY DEF Restore
<1>5. CursorType /\ cur_row' <= max_row
  <2> DEFINE row == IF "ORIGIN" \in s.flags THEN s.row - top_marg ELSE s.row
             fl  == flags'
  <2>1. row \in Int /\ s.col \in Int /\ CursorSet(row, s.col, fl, top_marg, bot_marg)
    BY <1>1, <1>3, <1>4
  <2> HIDE DEF row, fl
  <2> QED BY <1>1, <2>1, CursorSetType
<1> QED BY <1>2, <1>5

LEMMA SaveType ==
  ASSUME TypeOK, NEW row \in Nat, NEW col \in Nat, NEW fl, Save(row, col, fl)
  PROVE  sc' \in [BOOLEAN -> SavedCursor] /\ saves' \in 0..MaxSaves
<1>1. fl \cap DECSC_FLAGS \in SUBSET DECSC_FLAGS
  OBVIOUS
<1>2. [row |-> row, col |-> col, flags |-> fl \cap DECSC_FLAGS] \in SavedCursor
  BY <1>1 DEF SavedCursor
<1>3. sc' \in [BOOLEAN -> SavedCursor]
  BY <1>2 DEF Save, TypeOK
<1> QED BY <1>3, SizeAssumption DEF Save, TypeOK

LEMMA InitTypeOK == Init => TypeOK
<1> SUFFICES ASSUME Init PROVE TypeOK
  OBVIOUS
<1>1. PICK s \in Sizes : max_row = s[1] - 1 /\ max_col = s[2] - 1
  BY DEF Init
<1>2. /\ s[1] \in Nat \ {0} /\ s[2] \in Nat \ {0} /\ s = <<s[1], s[2]>>
  BY SizeAssumption
<1>3. /\ max_row \in Nat /\ max_col \in Nat /\ max_row + 1 = s[1] /\ max_col + 1 = s[2]
  BY <1>1, <1>2
<1>4. <<max_row + 1, max_col + 1>> \in Sizes
  BY <1>2, <1>3
<1>5. /\ cur_row \in 0..(max_row + 1) /\ cur_col \in 0..max_col
      /\ top_marg \in 0..(max_row + 1) /\ bot_marg \in 0..max_row
      /\ saves \in 0..MaxSaves
  BY <1>3, SizeAssumption DEF Init
<1>6. do_wrap \in BOOLEAN /\ alternate \in BOOLEAN
  BY DEF Init
<1>7. flags \in SUBSET Flag /\ tabs \in SUBSET (0..(MAX_TABS - 1))
  BY FlagAssumption DEF Init, TabReset
<1>8. sc \in [BOOLEAN -> SavedCursor]
  <2>1. \A a \in BOOLEAN :
          [row |-> 0, col |-> 0,
           flags |-> IF a THEN {} ELSE initflags \cap DECSC_FLAGS] \in SavedCursor
    BY DEF SavedCursor
  <2> QED BY <2>1 DEF Init
<1> QED BY <1>3, <1>4, <1>5, <1>6, <1>7, <1>8 DEF TypeOK

LEMMA MovesType == TypeOK /\ Moves => CursorType /\ Still
<1> SUFFICES ASSUME TypeOK, Moves PROVE CursorType /\ Still
  OBVIOUS
<1>0. /\ max_row \in Nat /\ max_col \in Nat /\ cur_row \in 0..(max_row + 1)
      /\ cur_col \in 0..max_col /\ top_marg \in Int /\ bot_marg \in 0..max_row
      /\ \A n \in Param : n \in Nat \ {0}
  BY SizeAssumption DEF TypeOK
<1>1. ASSUME NEW n \in Param,
             CUU(n) \/ CUD(n) \/ CUF(n) \/ CNL(n) \/ CPL(n)
      PROVE  CursorType /\ Still
  <2>1. UpRow(cur_row, n) \in 0..(max_row + 1) /\ DownRow(cur_row, n) \in 0..(max_row + 1)
    BY <1>0, UpRowType, DownRowType
  <2>2. Smaller(cur_col + n, max_col) \in 0..max_col /\ 0 \in 0..max_col
    BY <1>0
  <2>3. Still /\ \E row \in 0..(max_row + 1), col \in 0..max_col : MoveTo(row, col)
    BY <1>0, <1>1, <2>1, <2>2 DEF CUU, CUD, CUF, CNL, CPL
  <2> QED BY <2>3, MoveToType
<1>2. ASSUME NEW n \in Param, CUB(n) PROVE CursorType /\ Still
  <2>1. Back(n) \in Nat
    BY <1>0 DEF Back
  <2>2. CASE cur_col - Back(n) >= 0
    <3>1. MoveTo(cur_row, cur_col - Back(n)) /\ cur_col - Back(n) \in 0..max_col /\ Still
      BY <1>0, <1>2, <2>1, <2>2 DEF CUB
    <3> QED BY <1>0, <3>1, MoveToType
  <2>3. CASE cur_col - Back(n) < 0 /\ ReverseWraps
    <3> DEFINE i == BackCell(Back(n))
               w == max_col + 1
               h == max_row + 1
    <3>1. i \in 0..(w * h)
      BY <2>1, <2>3, BackCellType
    <3>2. w \in Nat \ {0} /\ h \in Nat
      BY <1>0
    <3>3. i \div w \in 0..h /\ i % w \in 0..(w - 1)
      <4> HIDE DEF i, w, h
      <4> QED BY <3>1, <3>2, DivMod
    <3>4. MoveTo(i \div w, i % w) /\ Still
      BY <1>0, <1>2, <2>1, <2>3 DEF CUB
    <3>5. w - 1 = max_col /\ h = max_row + 1
      BY <1>0
    <3> HIDE DEF i, w, h
    <3> QED BY <3>3, <3>4, <3>5, MoveToType
  <2>4. CASE cur_col - Back(n) < 0 /\ ~ReverseWraps
    <3>1. MoveTo(cur_row, 0) /\ Still
      BY <1>0, <1>2, <2>1, <2>4 DEF CUB
    <3> QED BY <1>0, <3>1, MoveToType
  <2> QED BY <1>0, <2>1, <2>2, <2>3, <2>4
<1>3. ASSUME NEW row \in Int, NEW col \in Int, Still,
             CursorSet(row, col, flags, top_marg, bot_marg)
      PROVE  CursorType /\ Still
  BY <1>0, <1>3, CursorSetType
<1>4. CASE \E row, col \in Param : CUP(row, col)
  BY <1>0, <1>3, <1>4 DEF CUP
<1>5. CASE \E n \in Param : VPA(n) \/ HPA(n)
  BY <1>0, <1>3, <1>5 DEF VPA, HPA
<1>6. CASE LowerLeft
  BY <1>0, <1>3, <1>6 DEF LowerLeft
<1>7. CASE CarriageReturn \/ VMOT \/ RI \/ LineOp \/ Erase
  <2>1. /\ IndexRow(cur_row, 1) \in 0..(max_row + 1)
        /\ RevIndexRow(cur_row, 1) \in 0..(max_row + 1) /\ 0 \in 0..max_col
    BY <1>0, IndexRowType, RevIndexRowType
  <2>2. Still /\ \E row \in 0..(max_row + 1), col \in 0..max_col : MoveTo(row, col)
    BY <1>0, <1>7, <2>1 DEF CarriageReturn, VMOT, IND, NEL, RI, LineOp, Erase
  <2> QED BY <2>2, MoveToType
<1>8. ASSUME NEW n \in Param, Text(n) PROVE CursorType /\ Still
  <2>1. IndexRow(cur_row, 1) \in 0..max_row
    BY <1>0, IndexRowType
  <2>2. cur_row' \in 0..(max_row + 1) /\ cur_col' \in 0..max_col /\ Still
    BY <1>0, <1>8, <2>1 DEF Text
  <2>3. do_wrap' \in BOOLEAN
    BY <1>8 DEF Text
  <2> QED BY <2>2, <2>3 DEF CursorType
<1>9. ASSUME NEW curses \in BOOLEAN, TAB(curses) PROVE CursorType /\ Still
  <2>1. IndexRow(cur_row, 1) \in 0..max_row
    BY <1>0, IndexRowType
  <2>2. /\ TabNext(0) \in Nat \cup {MAX_TABS - 1} /\ TabNext(cur_col) \in Nat \cup {MAX_TABS - 1}
        /\ MAX_TABS - 1 \in Nat
    <3>1. MAX_TABS \in Nat /\ max_col + 1 <= MAX_TABS
      BY SizeAssumption DEF TypeOK
    <3> QED BY <1>0, <3>1, TabNextType
  <2>3. cur_row' \in 0..(max_row + 1) /\ cur_col' \in 0..max_col /\ Still
    BY <1>0, <1>9, <2>1, <2>2 DEF TAB
  <2>4. do_wrap' \in BOOLEAN
    BY <1>9 DEF TAB
  <2> QED BY <2>3, <2>4 DEF CursorType
<1>10. CASE CBT
  <2>1. cur_col' \in 0..max_col /\ cur_row' \in 0..(max_row + 1) /\ Still
    BY <1>0, <1>10, TabPrevType DEF CBT
  <2>2. do_wrap' \in BOOLEAN
    BY <1>10 DEF CBT, TypeOK
  <2> QED BY <2>1, <2>2 DEF CursorType
<1> QED BY <1>1, <1>2, <1>4, <1>5, <1>6, <1>7, <1>8, <1>9, <1>10 DEF Moves

LEMMA ModesType == TypeOK /\ Modes => TypeOK'
<1> SUFFICES ASSUME TypeOK, Modes PROVE TypeOK'
  OBVIOUS
<1>0. /\ max_row \in Nat /\ max_col \in Nat /\ cur_row \in 0..(max_row + 1)
      /\ cur_col \in 0..max_col /\ top_marg \in Int /\ bot_marg \in 0..max_row
      /\ MAX_TABS \in Nat /\ max_col + 1 <= MAX_TABS
  BY SizeAssumption DEF TypeOK
<1>1. CASE HTS \/ TBC
  <2>1. tabs' \in SUBSET (0..(MAX_TABS - 1))
    <3>1. cur_col \in 0..(MAX_TABS - 1)
      BY <1>0
    <3> QED BY <1>1, <3>1 DEF HTS, TBC, TypeOK
  <2> QED BY <1>1, <2>1 DEF HTS, TBC, TypeOK
<1>2. ASSUME NEW top \in Param, NEW bot \in 0..MaxParam, DECSTBM(top, bot)
      PROVE  TypeOK'
  <2> DEFINE b == IF bot = 0 \/ bot > max_row + 1 THEN max_row + 1 ELSE bot
  <2>1. /\ b > top /\ top_marg' = top - 1 /\ bot_marg' = b - 1
        /\ CursorSet(0, 0, flags, top - 1, b - 1)
    BY <1>2 DEF DECSTBM
  <2>2. top \in Nat \ {0} /\ b \in 1..(max_row + 1)
    BY <1>0, SizeAssumption
  <2>3. top - 1 \in 0..(max_row + 1) /\ b - 1 \in 0..max_row
    <3> HIDE DEF b
    <3> QED BY <1>0, <2>1, <2>2
  <2>4. CursorType
    <3> HIDE DEF b
    <3> QED BY <1>0, <2>1, <2>3, CursorSetType
  <2> HIDE DEF b
  <2> QED BY <1>2, <2>1, <2>3, <2>4 DEF DECSTBM, CursorType, TypeOK
<1>3. ASSUME NEW on \in BOOLEAN, MemLock(on) PROVE TypeOK'
  <2>1. top_marg' \in 0..(max_row + 1)
    BY <1>0, <1>3 DEF MemLock
  <2> QED BY <1>3, <2>1 DEF MemLock, TypeOK
<1>4. ASSUME NEW on \in BOOLEAN, DECOM(on) PROVE TypeOK'
  <2>1. flags' \in SUBSET Flag
    BY <1>4 DEF DECOM, TypeOK, Flag
  <2>2. CursorType
    <3> DEFINE fl == flags'
    <3>1. CursorSet(0, 0, fl, top_marg, bot_marg)
      BY <1>4 DEF DECOM
    <3> HIDE DEF fl
    <3> QED BY <1>0, <3>1, CursorSetType
  <2> QED BY <1>4, <2>1, <2>2 DEF DECOM, CursorType, TypeOK
<1>5. ASSUME NEW f \in {"WRAPAROUND", "REVERSEWRAP"}, NEW on \in BOOLEAN,
             WrapMode(f, on)
      PROVE  TypeOK'
  <2>1. flags' \in SUBSET Flag
    BY <1>5 DEF WrapMode, TypeOK, Flag
  <2> QED BY <1>5, <2>1 DEF WrapMode, TypeOK
<1> QED BY <1>1, <1>2, <1>3, <1>4, <1>5 DEF Modes

LEMMA SavingType == TypeOK /\ Saving => TypeOK'
<1> SUFFICES ASSUME TypeOK, Saving PROVE TypeOK'
  OBVIOUS
<1>0. /\ max_row \in Nat /\ max_col \in Nat /\ cur_row \in Nat /\ cur_col \in Nat
      /\ sc[alternate] \in SavedCursor /\ sc[FALSE] \in SavedCursor
      /\ initflags \in SUBSET Flag
  <2>1. max_row \in Nat /\ max_col \in Nat /\ cur_row \in Nat /\ cur_col \in Nat
    BY DEF TypeOK
  <2>2. sc[alternate] \in SavedCursor /\ sc[FALSE] \in SavedCursor
    BY Zenon DEF TypeOK
  <2>3. initflags \in SUBSET Flag
    BY FlagAssumption
  <2> QED BY <2>1, <2>2, <2>3
<1>1. CASE DECSC
  <2>1. sc' \in [BOOLEAN -> SavedCursor] /\ saves' \in 0..MaxSaves
    BY <1>0, <1>1, SaveType DEF DECSC
  <2> QED BY <1>1, <2>1 DEF DECSC, TypeOK
<1>2. CASE DECRC
  <2>1. CursorType /\ flags' \in SUBSET Flag
    BY <1>0, <1>2, RestoreType DEF DECRC
  <2> QED BY <1>2, <2>1 DEF DECRC, CursorType, TypeOK
<1>3. CASE ToAlternate
  BY <1>3 DEF ToAlternate, TypeOK
<1>4. CASE EnterAlternate
  <2>1. sc' \in [BOOLEAN -> SavedCursor] /\ saves' \in 0..MaxSaves
    BY <1>0, <1>4, SaveType DEF EnterAlternate
  <2> QED BY <1>4, <2>1 DEF EnterAlternate, TypeOK
<1>5. CASE LeaveAlternate
  <2>1. CursorType /\ flags' \in SUBSET Flag
    BY <1>0, <1>5, RestoreType DEF LeaveAlternate
  <2>2. alternate' \in BOOLEAN
    BY <1>5 DEF LeaveAlternate
  <2> QED BY <1>5, <2>1, <2>2 DEF LeaveAlternate, CursorType, TypeOK
<1>6. ASSUME NEW clear \in BOOLEAN, FromAlternate(clear) PROVE TypeOK'
  <2>1. do_wrap' \in BOOLEAN /\ alternate' \in BOOLEAN
    BY <1>6 DEF FromAlternate
  <2> QED BY <1>6, <2>1 DEF FromAlternate, TypeOK
<1>7. CASE RIS
  <2>1. CursorType
    BY <1>0, <1>7, CursorSetType DEF RIS
  <2>2. sc' \in [BOOLEAN -> SavedCursor]
    <3>1. initflags \cap DECSC_FLAGS \in SUBSET DECSC_FLAGS
      OBVIOUS
    <3>2. [row |-> 0, col |-> 0, flags |-> initflags \cap DECSC_FLAGS] \in SavedCursor
      BY <3>1 DEF SavedCursor
    <3> QED BY <1>7, <3>2 DEF RIS, TypeOK
  <2>3. saves' \in 0..MaxSaves /\ tabs' \in SUBSET (0..(MAX_TABS - 1))
    BY <1>7, SizeAssumption DEF RIS, TypeOK, TabReset
  <2>4. alternate' \in BOOLEAN /\ flags' \in SUBSET Flag
    BY <1>0, <1>7 DEF RIS
  <2>5. top_marg' \in 0..(max_row + 1) /\ bot_marg' \in 0..max_row
    BY <1>0, <1>7 DEF RIS
  <2> QED BY <1>7, <2>1, <2>2, <2>3, <2>4, <2>5 DEF RIS, CursorType, TypeOK
<1>8. CASE DECSTR
  <2>1. sc' \in [BOOLEAN -> SavedCursor] /\ saves' \in 0..MaxSaves
    <3> DEFINE fl == flags'
    <3>1. Save(0, 0, fl)
      BY <1>8 DEF DECSTR
    <3> HIDE DEF fl
    <3> QED BY <3>1, SaveType
  <2>2. flags' \in SUBSET Flag
    BY <1>0, <1>8 DEF DECSTR
  <2>3. top_marg' \in 0..(max_row + 1) /\ bot_marg' \in 0..max_row
    BY <1>0, <1>8 DEF DECSTR
  <2> QED BY <1>8, <2>1, <2>2, <2>3 DEF DECSTR, TypeOK
<1> QED BY <1>1, <1>2, <1>3, <1>4, <1>5, <1>6, <1>7, <1>8 DEF Saving

LEMMA ScreenResizeType ==
  ASSUME TypeOK, NEW s \in Sizes, NEW row \in 0..(max_row + 1),
         NEW col \in 0..max_col, NEW wrap \in BOOLEAN,
         ScreenResize(s, row, col, wrap)
  PROVE  TypeOK' /\ cur_row' <= max_row'
<1>1. /\ s[1] \in Nat \ {0} /\ s[2] \in Nat \ {0} /\ s = <<s[1], s[2]>>
      /\ max_row \in Nat
  BY SizeAssumption DEF TypeOK
<1>2. /\ max_row' = s[1] - 1 /\ max_col' = s[2] - 1
      /\ top_marg' = 0 /\ bot_marg' = s[1] - 1
      /\ cur_col' = Smaller(col, s[2] - 1)
  BY DEF ScreenResize
<1>3. PICK down \in Shifts(s[1], row) : cur_row' = Smaller(row + down, s[1] - 1)
  BY DEF ScreenResize
<1>4. down \in Int /\ row + down >= 0
  <2> DEFINE delta == s[1] - (max_row + 1)
             up    == Larger(- delta - (max_row - row), 0)
  <2>1. delta \in Int /\ row \in Nat /\ row <= max_row + 1
    BY <1>1
  <2>2. down \in {0} \cup IF delta > 0 THEN 0..delta ELSE {- up}
    BY <1>3 DEF Shifts
  <2>3. up \in Nat /\ (up = 0 \/ row - up = s[1] - 1)
    BY <1>1, <2>1
  <2> HIDE DEF delta, up
  <2> QED BY <1>1, <2>1, <2>2, <2>3
<1>5. cur_row' \in 0..(s[1] - 1)
  BY <1>1, <1>3, <1>4
<1>6. /\ max_row' \in Nat /\ max_col' \in Nat /\ max_row' + 1 = s[1] /\ max_col' + 1 = s[2]
  BY <1>1, <1>2
<1>7. <<max_row' + 1, max_col' + 1>> \in Sizes
  BY <1>1, <1>6
<1>8. /\ cur_row' \in 0..(max_row' + 1) /\ cur_row' <= max_row'
      /\ cur_col' \in 0..max_col'
      /\ top_marg' \in 0..(max_row' + 1) /\ bot_marg' \in 0..max_row'
  BY <1>1, <1>2, <1>5, <1>6
<1>9. flags' \in SUBSET Flag /\ do_wrap' \in BOOLEAN
  BY DEF ScreenResize, TypeOK
<1> QED BY <1>6, <1>7, <1>8, <1>9 DEF ScreenResize, TypeOK

LEMMA NextTypeOK == TypeOK /\ [Next]_vars => TypeOK'
<1> SUFFICES ASSUME TypeOK, [Next]_vars PROVE TypeOK'
  OBVIOUS
<1>1. CASE Moves
  BY <1>1, MovesType, StillType
<1>2. CASE Modes
  BY <1>2, ModesType
<1>3. CASE Saving
  BY <1>3, SavingType
<1>4. CASE VTResize
  <2>1. cur_row \in 0..(max_row + 1) /\ cur_col \in 0..max_col /\ do_wrap \in BOOLEAN
    BY DEF TypeOK
  <2> QED BY <1>4, <2>1, ScreenResizeType DEF VTResize
<1>5. CASE DECCOLM
  <2>1. /\ top_marg \in Int /\ bot_marg \in 0..max_row /\ max_row \in Nat
        /\ max_col \in Nat
    BY DEF TypeOK
  <2>2. CASE CursorSet(0, 0, flags, top_marg, bot_marg) /\ Still
    BY <2>1, <2>2, CursorSetType, StillType
  <2>3. ASSUME NEW s \in Sizes, ScreenResize(s, Home, 0, FALSE) PROVE TypeOK'
    <3>1. Home \in 0..(max_row + 1) /\ 0 \in 0..max_col
      BY <2>1, SetRowType DEF Home
    <3> QED BY <2>3, <3>1, ScreenResizeType
  <2> QED BY <1>5, <2>2, <2>3 DEF DECCOLM
<1>6. CASE UNCHANGED vars
  BY <1>6 DEF TypeOK
<1> QED BY <1>1, <1>2, <1>3, <1>4, <1>5, <1>6 DEF Next, Resizing

\* The cursor is a cell of the screen or of the row below it, the margins and
\* the saved cursors have the range the code relies on, for windows of any size.
THEOREM TypeCorrect == Spec => []TypeOK
<1> QED BY InitTypeOK, NextTypeOK, PTL DEF Spec

-----------------------------------------------------------------------------
(* Leaving the screen.                                                     *)

\* Every movement but CUB ends on the screen unless it began below it.
LEMMA MovesOnScreen ==
  TypeOK /\ Moves /\ cur_row <= max_row => cur_row' <= max_row \/ \E n \in Param : CUB(n)
<1> SUFFICES ASSUME TypeOK, Moves, cur_row <= max_row, ~ \E n \in Param : CUB(n)
             PROVE  cur_row' <= max_row
  OBVIOUS
<1>0. /\ max_row \in Nat /\ max_col \in Nat /\ cur_row \in 0..max_row
      /\ cur_col \in 0..max_col /\ top_marg \in Int /\ bot_marg \in 0..max_row
      /\ \A n \in Param : n \in Nat
  BY SizeAssumption DEF TypeOK
<1>1. \A n \in Param : UpRow(cur_row, n) <= max_row /\ DownRow(cur_row, n) <= max_row
  BY <1>0, UpRowType, DownRowType
<1>2. IndexRow(cur_row, 1) <= max_row /\ RevIndexRow(cur_row, 1) <= max_row
  BY <1>0, IndexRowType, RevIndexRowType
<1>3. ASSUME NEW row \in Int, NEW col \in Int,
             CursorSet(row, col, flags, top_marg, bot_marg)
      PROVE  cur_row' <= max_row
  BY <1>0, <1>3, CursorSetType
<1>4. ASSUME NEW n \in Param, CUU(n) \/ CUD(n) \/ CUF(n) \/ CNL(n) \/ CPL(n)
      PROVE  cur_row' <= max_row
  BY <1>0, <1>1, <1>4 DEF CUU, CUD, CUF, CNL, CPL, MoveTo
<1>5. CASE \E row, col \in Param : CUP(row, col)
  BY <1>0, <1>3, <1>5 DEF CUP
<1>6. CASE \E n \in Param : VPA(n) \/ HPA(n)
  BY <1>0, <1>3, <1>6 DEF VPA, HPA
<1>7. CASE LowerLeft
  BY <1>0, <1>3, <1>7 DEF LowerLeft
<1>8. CASE CarriageReturn \/ VMOT \/ RI \/ LineOp \/ Erase
  BY <1>2, <1>8 DEF CarriageReturn, VMOT, IND, NEL, RI, LineOp, Erase, MoveTo
<1>9. CASE \E n \in Param : Text(n)
  BY <1>2, <1>9 DEF Text
<1>10. CASE (\E curses \in BOOLEAN : TAB(curses)) \/ CBT
  BY <1>2, <1>10 DEF TAB, CBT
<1> QED BY <1>4, <1>5, <1>6, <1>7, <1>8, <1>9, <1>10 DEF Moves

LEMMA OthersOnScreen ==
  TypeOK /\ (Modes \/ Saving \/ Resizing \/ UNCHANGED vars) /\ cur_row <= max_row
    => cur_row' <= max_row'
<1> SUFFICES ASSUME TypeOK, Modes \/ Saving \/ Resizing \/ UNCHANGED vars,
                    cur_row <= max_row
             PROVE  cur_row' <= max_row'
  OBVIOUS
<1>0. /\ max_row \in Nat /\ max_col \in Nat /\ cur_row \in 0..(max_row + 1)
      /\ cur_col \in 0..max_col /\ top_marg \in Int /\ bot_marg \in 0..max_row
  BY DEF TypeOK
<1>1. CASE Modes
  <2>1. CASE \E top \in Param, bot \in 0..MaxParam : DECSTBM(top, bot)
    <3>1. PICK top \in Param, bot \in 0..MaxParam : DECSTBM(top, bot)
      BY <2>1
    <3> DEFINE b == IF bot = 0 \/ bot > max_row + 1 THEN max_row + 1 ELSE bot
    <3>2. CursorSet(0, 0, flags, top - 1, b - 1) /\ b > top
      BY <3>1 DEF DECSTBM
    <3>3. top - 1 \in Int /\ b - 1 \in 0..max_row
      BY <1>0, <3>2, SizeAssumption
    <3>4. cur_row' <= max_row
      <4> HIDE DEF b
      <4> QED BY <3>2, <3>3, CursorSetType
    <3> QED BY <3>1, <3>4 DEF DECSTBM
  <2>2. CASE \E on \in BOOLEAN : DECOM(on)
    <3>1. PICK on \in BOOLEAN : DECOM(on)
      BY <2>2
    <3> DEFINE fl == flags'
    <3>2. CursorSet(0, 0, fl, top_marg, bot_marg)
      BY <3>1 DEF DECOM
    <3>3. cur_row' <= max_row
      <4> HIDE DEF fl
      <4> QED BY <1>0, <3>2, CursorSetType
    <3> QED BY <3>1, <3>3 DEF DECOM
  <2>3. CASE \/ HTS \/ TBC \/ \E on \in BOOLEAN : MemLock(on)
             \/ \E f \in {"WRAPAROUND", "REVERSEWRAP"}, on \in BOOLEAN : WrapMode(f, on)
    BY <2>3 DEF HTS, TBC, MemLock, WrapMode
  <2> QED BY <1>1, <2>1, <2>2, <2>3 DEF Modes
<1>2. CASE Saving
  <2>1. CASE DECRC \/ LeaveAlternate
    <3>1. sc[alternate] \in SavedCursor /\ sc[FALSE] \in SavedCursor
      BY Zenon DEF TypeOK
    <3> QED BY <2>1, <3>1, RestoreType DEF DECRC, LeaveAlternate
  <2>2. CASE RIS
    <3>1. cur_row' <= max_row
      BY <1>0, <2>2, CursorSetType DEF RIS
    <3> QED BY <2>2, <3>1 DEF RIS
  <2>3. CASE \/ DECSC \/ ToAlternate \/ EnterAlternate \/ DECSTR
             \/ \E clear \in BOOLEAN : FromAlternate(clear)
    BY <2>3 DEF DECSC, ToAlternate, EnterAlternate, DECSTR, FromAlternate
  <2> QED BY <1>2, <2>1, <2>2, <2>3 DEF Saving
<1>3. CASE Resizing
  <2>1. cur_row \in 0..(max_row + 1) /\ cur_col \in 0..max_col /\ do_wrap \in BOOLEAN
    BY DEF TypeOK
  <2>2. Home \in 0..(max_row + 1) /\ 0 \in 0..max_col
    BY <1>0, SetRowType DEF Home
  <2>3. CASE CursorSet(0, 0, flags, top_marg, bot_marg) /\ Still
    <3>1. cur_row' <= max_row
      BY <1>0, <2>3, CursorSetType
    <3> QED BY <2>3, <3>1 DEF Still
  <2> QED BY <1>3, <2>1, <2>2, <2>3, ScreenResizeType DEF Resizing, VTResize, DECCOLM
<1>4. CASE UNCHANGED vars
  BY <1>4
<1> QED BY <1>1, <1>2, <1>3, <1>4

\* Nothing but CursorBack takes the cursor off the screen.
THEOREM BackLeaves == Spec => OnlyBackLeaves
<1>1. TypeOK /\ [Next]_vars
        => [cur_row' > max_row' => (\E n \in Param : CUB(n)) \/ cur_row > max_row]_vars
  <2> SUFFICES ASSUME TypeOK, [Next]_vars, cur_row' > max_row',
                      ~ \E n \in Param : CUB(n), ~(cur_row > max_row)
               PROVE  FALSE
    OBVIOUS
  <2>1. max_row \in Nat /\ cur_row \in Int /\ cur_row <= max_row
    BY DEF TypeOK
  <2>2. max_row' \in Nat /\ cur_row' \in Int
    BY NextTypeOK DEF TypeOK
  <2>3. CASE Moves
    <3>1. max_row' = max_row
      BY <2>3, MovesType DEF Still
    <3> QED BY <2>1, <2>2, <2>3, <3>1, MovesOnScreen
  <2>4. CASE Modes \/ Saving \/ Resizing \/ UNCHANGED vars
    BY <2>1, <2>2, <2>4, OthersOnScreen
  <2> QED BY <2>3, <2>4 DEF Next
<1> QED BY <1>1, TypeCorrect, PTL DEF Spec, OnlyBackLeaves

-----------------------------------------------------------------------------
(* The margins.                                                            *)

\* Only a memory lock crosses the margins.
THEOREM LockCrosses == Spec => OnlyLockCrosses
<1>1. TypeOK /\ [Next]_vars
        => [top_marg' > bot_marg' => MemLock(TRUE) \/ top_marg > bot_marg]_vars
  <2> SUFFICES ASSUME TypeOK, [Next]_vars, top_marg' > bot_marg', ~MemLock(TRUE),
                      ~(top_marg > bot_marg)
               PROVE  FALSE
    OBVIOUS
  <2>0. top_marg \in Int /\ bot_marg \in Int /\ max_row \in Nat /\ bot_marg >= 0
    BY DEF TypeOK
  <2>1. ASSUME region' = region PROVE FALSE
    BY <2>0, <2>1
  <2>2. CASE Moves
    BY <2>1, <2>2, MovesType DEF Still
  <2>3. CASE Modes
    <3>1. ASSUME NEW top \in Param, NEW bot \in 0..MaxParam, DECSTBM(top, bot)
          PROVE  FALSE
      <4>1. PICK b \in Int : b > top /\ top_marg' = top - 1 /\ bot_marg' = b - 1
        BY <2>0, <3>1, SizeAssumption DEF DECSTBM
      <4> QED BY <4>1, SizeAssumption
    <3>2. CASE MemLock(FALSE)
      BY <2>0, <3>2 DEF MemLock
    <3>3. CASE \/ HTS \/ TBC \/ \E on \in BOOLEAN : DECOM(on)
               \/ \E f \in {"WRAPAROUND", "REVERSEWRAP"}, on \in BOOLEAN : WrapMode(f, on)
      BY <2>1, <3>3 DEF HTS, TBC, DECOM, WrapMode
    <3> QED BY <2>3, <3>1, <3>2, <3>3 DEF Modes
  <2>4. CASE Saving
    <3>1. CASE RIS \/ DECSTR
      <4>1. top_marg' = 0 /\ bot_marg' = max_row
        BY Zenon, <3>1 DEF RIS, DECSTR
      <4> QED BY <2>0, <4>1
    <3>2. CASE \/ DECSC \/ DECRC \/ ToAlternate \/ EnterAlternate \/ LeaveAlternate
               \/ \E clear \in BOOLEAN : FromAlternate(clear)
      BY <2>1, <3>2 DEF DECSC, DECRC, ToAlternate, EnterAlternate, LeaveAlternate,
                        FromAlternate
    <3> QED BY <2>4, <3>1, <3>2 DEF Saving
  <2>5. ASSUME NEW s \in Sizes, NEW row, NEW col, NEW wrap,
               ScreenResize(s, row, col, wrap)
        PROVE  FALSE
    BY <2>5, SizeAssumption DEF ScreenResize
  <2>6. CASE Resizing
    BY <2>1, <2>5, <2>6 DEF Resizing, VTResize, DECCOLM, Still
  <2>7. CASE UNCHANGED vars
    BY <2>1, <2>7
  <2> QED BY <2>2, <2>3, <2>4, <2>6, <2>7 DEF Next
<1> QED BY <1>1, TypeCorrect, PTL DEF Spec, OnlyLockCrosses

\* The vertical movements keep a cursor of the region in the region.
THEOREM RegionKept == Spec => RegionHolds
<1>1. TypeOK /\ [Next]_vars
        => [InRegion /\ ~InRegion' =>
             ~ \/ \E n \in Param : CUU(n) \/ CUD(n) \/ CNL(n) \/ CPL(n) \/ Text(n)
               \/ VMOT \/ RI \/ \E curses \in BOOLEAN : TAB(curses)]_vars
  <2> SUFFICES ASSUME TypeOK, InRegion,
                      \/ \E n \in Param : CUU(n) \/ CUD(n) \/ CNL(n) \/ CPL(n) \/ Text(n)
                      \/ VMOT \/ RI \/ \E curses \in BOOLEAN : TAB(curses)
               PROVE  InRegion'
    OBVIOUS
  <2>0. /\ cur_row \in Int /\ top_marg \in Int /\ bot_marg \in Int
        /\ top_marg <= cur_row /\ cur_row <= bot_marg
        /\ \A n \in Param : n \in Nat
    BY SizeAssumption DEF TypeOK, InRegion
  <2> DEFINE Inside(r) == top_marg <= r /\ r <= bot_marg
  <2>1. \A n \in Param : Inside(UpRow(cur_row, n)) /\ Inside(DownRow(cur_row, n))
    BY <2>0 DEF UpRow, DownRow
  <2>2. Inside(IndexRow(cur_row, 1)) /\ Inside(RevIndexRow(cur_row, 1))
    BY <2>0 DEF IndexRow, RevIndexRow, UpRow, DownRow
  <2>3. Inside(cur_row')
    <3>1. ASSUME NEW n \in Param, CUU(n) \/ CUD(n) \/ CNL(n) \/ CPL(n)
          PROVE  Inside(cur_row')
      <4> HIDE DEF Inside
      <4> QED BY <2>1, <3>1 DEF CUU, CUD, CNL, CPL, MoveTo
    <3>2. ASSUME (\E n \in Param : Text(n)) \/ VMOT \/ RI
                   \/ \E curses \in BOOLEAN : TAB(curses)
          PROVE  Inside(cur_row')
      <4>1. cur_row' \in {cur_row, IndexRow(cur_row, 1), RevIndexRow(cur_row, 1)}
        BY <3>2 DEF Text, VMOT, IND, NEL, RI, TAB, MoveTo
      <4> QED BY <2>0, <2>2, <4>1
    <3> QED BY <3>1, <3>2
  <2>4. UNCHANGED region
    BY DEF CUU, CUD, CNL, CPL, Text, VMOT, IND, NEL, RI, TAB, Still
  <2> QED BY <2>3, <2>4 DEF InRegion
<1> QED BY <1>1, TypeCorrect, PTL DEF Spec, RegionHolds

-----------------------------------------------------------------------------
(* What is saved.                                                          *)

\* The alternate screen never touches the cursor saved for the main one.
THEOREM MainKept == Spec => MainCursorKept
<1>1. TypeOK /\ [Next]_vars
        => [alternate /\ alternate' => sc'[FALSE] = sc[FALSE]]_vars
  <2> SUFFICES ASSUME TypeOK, [Next]_vars, alternate, alternate'
               PROVE  sc'[FALSE] = sc[FALSE]
    OBVIOUS
  <2>1. alternate = TRUE /\ alternate' = TRUE
    BY Zenon, NextTypeOK DEF TypeOK
  <2>2. ASSUME NEW row, NEW col, NEW fl, Save(row, col, fl)
        PROVE  sc'[FALSE] = sc[FALSE]
    <3>1. sc' = [sc EXCEPT ![TRUE] =
                  [row |-> row, col |-> col, flags |-> fl \cap DECSC_FLAGS]]
      BY <2>1, <2>2 DEF Save
    <3>2. DOMAIN sc = BOOLEAN /\ FALSE # TRUE
      BY DEF TypeOK
    <3> QED BY <3>1, <3>2, Zenon
  <2>3. CASE Moves
    BY <2>3, MovesType DEF Still
  <2>4. CASE Modes
    BY <2>4 DEF Modes, HTS, TBC, DECSTBM, MemLock, DECOM, WrapMode
  <2>5. CASE DECSC \/ EnterAlternate
    BY <2>2, <2>5 DEF DECSC, EnterAlternate
  <2>6. CASE DECSTR
    <3> DEFINE fl == flags'
    <3>1. Save(0, 0, fl)
      BY <2>6 DEF DECSTR
    <3> HIDE DEF fl
    <3> QED BY <2>2, <3>1
  <2>7. CASE RIS
    BY <2>1, <2>7, Zenon DEF RIS
  <2>8. CASE \/ DECRC \/ ToAlternate \/ LeaveAlternate
             \/ \E clear \in BOOLEAN : FromAlternate(clear)
    BY <2>8 DEF DECRC, ToAlternate, LeaveAlternate, FromAlternate
  <2>9. CASE Resizing
    BY <2>9 DEF Resizing, VTResize, DECCOLM, ScreenResize, Still
  <2>10. CASE UNCHANGED vars
    BY <2>10
  <2> QED BY <2>3, <2>4, <2>5, <2>6, <2>7, <2>8, <2>9, <2>10 DEF Next, Saving
<1> QED BY <1>1, TypeCorrect, PTL DEF Spec, MainCursorKept

\* DECRC finds the saved cell again when it is on the screen and, in origin
\* mode, not below the region.
THEOREM RestoreCorrect == Spec => RestoreReturns
<1>1. TypeOK =>
        [DECRC =>
          LET s == sc[alternate]
              last == IF "ORIGIN" \in s.flags THEN bot_marg ELSE max_row
          IN  s.row <= last /\ s.col <= max_col
                => cur_row' = s.row /\ cur_col' = s.col]_vars
  <2> DEFINE s    == sc[alternate]
             last == IF "ORIGIN" \in s.flags THEN bot_marg ELSE max_row
  <2> SUFFICES ASSUME TypeOK, DECRC, s.row <= last, s.col <= max_col
               PROVE  cur_row' = s.row /\ cur_col' = s.col
    OBVIOUS
  <2>1. s \in SavedCursor
    BY Zenon DEF TypeOK
  <2>2. /\ Restore(s) /\ top_marg \in Int /\ bot_marg \in Int /\ max_row \in Int
        /\ max_col \in Int
    BY DEF DECRC, TypeOK
  <2> HIDE DEF s
  <2>3. s.row \in Nat /\ s.col \in Nat /\ s.flags \in SUBSET DECSC_FLAGS
    BY <2>1 DEF SavedCursor
  <2>4. ("ORIGIN" \in flags') <=> ("ORIGIN" \in s.flags)
    BY <2>2, <2>3 DEF Restore, DECSC_FLAGS
  <2>5. /\ cur_row' = SetRow(IF "ORIGIN" \in s.flags THEN s.row - top_marg ELSE s.row,
                             flags', top_marg, bot_marg)
        /\ cur_col' = Smaller(Larger(s.col, 0), max_col)
    BY <2>2 DEF Restore, CursorSet
  <2>6. CASE "ORIGIN" \in s.flags
    BY <2>2, <2>3, <2>4, <2>5, <2>6 DEF SetRow
  <2>7. CASE "ORIGIN" \notin s.flags
    BY <2>2, <2>3, <2>4, <2>5, <2>7 DEF SetRow
  <2> QED BY <2>6, <2>7
<1> QED BY <1>1, TypeCorrect, PTL DEF Spec, RestoreReturns

\* A tab moves forward, or stays at the last column.
THEOREM TabsForward == Spec => TabForward
<1>1. TypeOK => [~do_wrap /\ (cur_row' # cur_row \/ cur_col' < cur_col)
                   => ~ \E curses \in BOOLEAN : TAB(curses)]_vars
  <2> SUFFICES ASSUME TypeOK, ~do_wrap, NEW curses \in BOOLEAN, TAB(curses)
               PROVE  cur_row' = cur_row /\ ~(cur_col' < cur_col)
    OBVIOUS
  <2>1. /\ cur_col \in Nat /\ max_col \in Nat /\ cur_col <= max_col
        /\ MAX_TABS \in Nat /\ max_col + 1 <= MAX_TABS
    BY SizeAssumption DEF TypeOK
  <2>2. cur_row' = cur_row /\ cur_col' = Smaller(TabNext(cur_col), max_col)
    BY DEF TAB
  <2>3. TabNext(cur_col) \in Int /\ TabNext(cur_col) >= cur_col
    BY <2>1, TabNextType
  <2> QED BY <2>1, <2>2, <2>3
<1> QED BY <1>1, TypeCorrect, PTL DEF Spec, TabForward
-----------------------------------------------------------------------------
(* The parser.                                                             *)

HIDE DEF size, cursor, region, saved, vars, Smaller, Larger, Param
USE DEF parser, level, params, strings, shifts, effect

-----------------------------------------------------------------------------
(* What the tables hold.                                                   *)

Vt52Tables == {"vt52_table", "vt52_esc_table", "vt52_ignore_table"}
Vt52Cases == {"IGNORE", "ENQ", "BELL", "BS", "TAB", "VMOT", "CR", "SO", "SI", "GROUND_STATE",
  "ESC", "PRINT", "ANSI_LEVEL_1", "DECKPAM", "DECKPNM", "CUU", "CUD", "CUF", "CUB", "CUP",
  "RI", "ED", "EL", "VT52_CUP", "DECID", "VT52_IGNORE"}

LEMMA NamedIn ==
  ASSUME NEW cases, NEW b, NEW other
  PROVE  Named(cases, b, other) \in DOMAIN cases \cup {other}
BY DEF Named

LEMMA C0Cases ==
  ASSUME NEW b \in 0..31
  PROVE  C0[b] \in Vt52Cases
<1>1. C0[b] = Named([ENQ |-> {5}, BELL |-> {7}, BS |-> {8}, TAB |-> {9}, VMOT |-> 10..12,
                CR |-> {13}, SO |-> {14}, SI |-> {15}, GROUND_STATE |-> {24, 26},
                ESC |-> {27}], b, "IGNORE")
  BY DEF C0
<1>2. C0[b] \in {"ENQ", "BELL", "BS", "TAB", "VMOT", "CR", "SO", "SI", "GROUND_STATE", "ESC"}
                \cup {"IGNORE"}
  BY <1>1, NamedIn
<1> QED BY <1>2 DEF Vt52Cases

LEMMA Vt52Table ==
  ASSUME NEW cases, NEW last, NEW rest, NEW others, NEW b \in 0..255,
         DOMAIN cases \subseteq Vt52Cases, rest \in Vt52Cases, others \in Vt52Cases
  PROVE  Vt52(cases, last, rest, others)[b] \in Vt52Cases
<1>1. CASE b \in 0..31
  BY <1>1, C0Cases DEF Vt52, Vt52Cases
<1>2. CASE b \notin 0..31 /\ b >= 127
  BY <1>2 DEF Vt52, Vt52Cases
<1>3. CASE b \notin 0..31 /\ ~(b >= 127)
  <2>1. Vt52(cases, last, rest, others)[b]
          = Named(cases, b, IF b <= last THEN rest ELSE others)
    BY <1>3 DEF Vt52
  <2> QED BY <2>1, NamedIn
<1> QED BY <1>1, <1>2, <1>3

LEMMA Vt52Said ==
  ASSUME NEW table \in Vt52Tables, NEW b \in 0..255
  PROVE  Tables[table][b] \in Vt52Cases
<1>1. vt52_table[b] \in Vt52Cases
  <2>1. DOMAIN << >> \subseteq Vt52Cases
    OBVIOUS
  <2> QED BY <2>1, Vt52Table DEF vt52_table, Vt52Cases
<1>2. vt52_ignore_table[b] \in Vt52Cases
  <2>1. DOMAIN << >> \subseteq Vt52Cases
    OBVIOUS
  <2> QED BY <2>1, Vt52Table DEF vt52_ignore_table, Vt52Cases
<1>3. vt52_esc_table[b] \in Vt52Cases
  <2> DEFINE cases == [ANSI_LEVEL_1 |-> {60}, DECKPAM |-> {61}, DECKPNM |-> {62},
        CUU |-> {65}, CUD |-> {66}, CUF |-> {67}, CUB |-> {68}, SO |-> {70}, SI |-> {71},
        CUP |-> {72}, RI |-> {73}, ED |-> {74}, EL |-> {75}, VT52_CUP |-> {89},
        DECID |-> {90}]
  <2>1. DOMAIN cases \subseteq Vt52Cases
    BY DEF Vt52Cases
  <2>2. vt52_esc_table = Vt52(cases, 47, "VT52_IGNORE", "GROUND_STATE")
    BY DEF vt52_esc_table
  <2> HIDE DEF cases
  <2> QED BY <2>1, <2>2, Vt52Table DEF Vt52Cases
<1> QED BY <1>1, <1>2, <1>3 DEF Tables, Vt52Tables

\* What tables share: the control characters, and what does not go on.
Basic == {"IGNORE", "ENQ", "BELL", "BS", "TAB", "VMOT", "CR", "SO", "SI", "GROUND_STATE", "ESC",
  "IND", "NEL", "HTS", "RI", "SS2", "SS3", "DCS", "SPA", "EPA", "SOS", "DECID", "CSI_STATE",
  "ST", "OSC", "PM", "APC"}

\* The cases of the VT52 alone.
Only52 == {"VT52_CUP", "VT52_IGNORE"}

LEMMA Only52Rare == Only52 \cap Basic = {}
BY DEF Only52, Basic

LEMMA C1Cases ==
  ASSUME NEW b \in 128..159
  PROVE  C1[b] \in Basic
<1>1. C1[b] = Named([IND |-> {132}, NEL |-> {133}, HTS |-> {136}, RI |-> {141},
         SS2 |-> {142}, SS3 |-> {143}, DCS |-> {144}, SPA |-> {150}, EPA |-> {151},
         SOS |-> {152}, DECID |-> {154}, CSI_STATE |-> {155}, ST |-> {156}, OSC |-> {157},
         PM |-> {158}, APC |-> {159}], b, "GROUND_STATE")
  BY DEF C1
<1>2. C1[b] \in {"IND", "NEL", "HTS", "RI", "SS2", "SS3", "DCS", "SPA", "EPA", "SOS", "DECID",
         "CSI_STATE", "ST", "OSC", "PM", "APC"} \cup {"GROUND_STATE"}
  BY <1>1, NamedIn
<1> QED BY <1>2 DEF Basic

LEMMA C0Other ==
  ASSUME NEW b \in 0..31
  PROVE  C0[b] \in Basic
<1>1. C0[b] = Named([ENQ |-> {5}, BELL |-> {7}, BS |-> {8}, TAB |-> {9}, VMOT |-> 10..12,
                CR |-> {13}, SO |-> {14}, SI |-> {15}, GROUND_STATE |-> {24, 26},
                ESC |-> {27}], b, "IGNORE")
  BY DEF C0
<1>2. C0[b] \in {"ENQ", "BELL", "BS", "TAB", "VMOT", "CR", "SO", "SI", "GROUND_STATE", "ESC"}
                \cup {"IGNORE"}
  BY <1>1, NamedIn
<1> QED BY <1>2 DEF Basic

\* A table says none of the cases S if what is its own does not.
LEMMA TableOther ==
  ASSUME NEW S, S \cap Basic = {}, NEW g, \A b \in 32..127 : g[b] \notin S, NEW b \in 0..255
  PROVE  Table(g)[b] \notin S
<1>1. CASE b \in 0..31
  <2>1. Table(g)[b] = C0[b]
    BY <1>1 DEF Table
  <2> QED BY <1>1, <2>1, C0Other
<1>2. CASE b \in 128..159
  <2>1. Table(g)[b] = C1[b]
    BY <1>2 DEF Table
  <2> QED BY <1>2, <2>1, C1Cases
<1>3. CASE b \in 32..127
  <2>1. Table(g)[b] = g[b]
    BY <1>3 DEF Table
  <2> QED BY <1>3, <2>1
<1>4. CASE b \in 160..255
  <2>1. b - 128 \in 32..127 /\ Table(g)[b] = g[b - 128]
    BY <1>4 DEF Table
  <2> QED BY <2>1
<1> QED BY <1>1, <1>2, <1>3, <1>4

LEMMA SequenceOther ==
  ASSUME NEW S, S \cap Basic = {}, NEW last, NEW rest, NEW cases, NEW b \in 0..255,
         rest \notin S, DOMAIN cases \cap S = {}
  PROVE  Sequence(last, rest, cases)[b] \notin S
<1> DEFINE otherwise(a) == IF a <= last THEN rest ELSE IF a = 127 THEN "IGNORE" ELSE "GROUND_STATE"
           g == [a \in 32..127 |-> Named(cases, a, otherwise(a))]
<1>1. ASSUME NEW a \in 32..127 PROVE g[a] \notin S
  <2>1. g[a] = Named(cases, a, otherwise(a))
    OBVIOUS
  <2>2. otherwise(a) \notin S
    BY DEF Basic
  <2> HIDE DEF otherwise
  <2>3. Named(cases, a, otherwise(a)) \in DOMAIN cases \cup {otherwise(a)}
    BY NamedIn
  <2> QED BY <2>1, <2>2, <2>3
<1>2. Sequence(last, rest, cases) = Table(g)
  BY DEF Sequence
<1> HIDE DEF g
<1> QED BY <1>1, <1>2, TableOther

LEMMA NumberedOther ==
  ASSUME NEW S, S \cap {"ESC_DIGIT", "ESC_SEMI"} = {}, NEW table, NEW b \in 0..255, table[b] \notin S
  PROVE  Numbered(table)[b] \notin S
<1> DEFINE cases == [ESC_DIGIT |-> (48..57) \cup (176..185), ESC_SEMI |-> {59, 187}]
<1>1. Numbered(table)[b] = Named(cases, b, table[b])
  BY DEF Numbered
<1>2. DOMAIN cases = {"ESC_DIGIT", "ESC_SEMI"}
  OBVIOUS
<1> HIDE DEF cases
<1>3. Named(cases, b, table[b]) \in {"ESC_DIGIT", "ESC_SEMI"} \cup {table[b]}
  BY <1>2, NamedIn
<1> QED BY <1>1, <1>3

LEMMA OtherSaid ==
  ASSUME NEW table \in DOMAIN Tables \ Vt52Tables, NEW b \in 0..255
  PROVE  Tables[table][b] \notin Only52
<1>1. ansi_table[b] \notin Only52
  <2>1. \A a \in 32..127 : [x \in 32..127 |-> "PRINT"][a] \notin Only52
    BY DEF Only52
  <2> QED BY <2>1, Only52Rare, TableOther DEF ansi_table
<1>2. csi2_table[b] \notin Only52
  <2> DEFINE cases == [CSI_EX_STATE |-> {33}, CSI_QUOTE_STATE |-> {34}, ICH |-> {64}, CUU |->
        {65}, CUD |-> {66}, CUF |-> {67}, CUB |-> {68}, CNL |-> {69}, CPL |-> {70}, HPA
        |-> {71, 96}, CUP |-> {72, 102}, CHT |-> {73}, ED |-> {74}, EL |-> {75}, IL |->
        {76}, DL |-> {77}, DCH |-> {80}, SU |-> {83}, TRACK_MOUSE |-> {84}, ECH |-> {88},
        CBT |-> {90}, REP |-> {98}, DA1 |-> {99}, VPA |-> {100}, TBC |-> {103}, SET |->
        {104}, MC |-> {105}, RST |-> {108}, SGR |-> {109}, CPR |-> {110}, DECSTBM |->
        {114}, DECSC |-> {115}, XTERM_WINOPS |-> {116}, DECRC |-> {117}, DECREQTPARM |->
        {120}]
  <2>1. DOMAIN cases \cap Only52 = {}
    BY DEF Only52
  <2>2. csi2_table = Numbered(Sequence(63, "CSI_IGNORE", cases))
    BY DEF csi2_table
  <2> HIDE DEF cases
  <2>3. Sequence(63, "CSI_IGNORE", cases)[b] \notin Only52
    BY <2>1, Only52Rare, SequenceOther DEF Only52
  <2> QED BY <2>2, <2>3, NumberedOther DEF Only52
<1>3. csi_ex_table[b] \notin Only52
  <2> DEFINE cases == [DECSTR |-> {112}]
  <2>1. DOMAIN cases \cap Only52 = {}
    BY DEF Only52
  <2>2. csi_ex_table = Sequence(63, "CSI_IGNORE", cases)
    BY DEF csi_ex_table
  <2> HIDE DEF cases
  <2> QED BY <2>1, <2>2, Only52Rare, SequenceOther DEF Only52
<1>4. csi_quo_table[b] \notin Only52
  <2> DEFINE cases == [DECSCL |-> {112}, DECSCA |-> {113}]
  <2>1. DOMAIN cases \cap Only52 = {}
    BY DEF Only52
  <2>2. csi_quo_table = Sequence(63, "CSI_IGNORE", cases)
    BY DEF csi_quo_table
  <2> HIDE DEF cases
  <2> QED BY <2>1, <2>2, Only52Rare, SequenceOther DEF Only52
<1>5. dec_table[b] \notin Only52
  <2> DEFINE cases == [DECSED |-> {74}, DECSEL |-> {75}, DECSET |-> {104}, DEC_MC |-> {105},
        DECRST |-> {108}, DSR |-> {110}, XTERM_RESTORE |-> {114}, XTERM_SAVE |-> {115}]
  <2>1. DOMAIN cases \cap Only52 = {}
    BY DEF Only52
  <2>2. dec_table = Numbered(Sequence(63, "CSI_IGNORE", cases))
    BY DEF dec_table
  <2> HIDE DEF cases
  <2>3. Sequence(63, "CSI_IGNORE", cases)[b] \notin Only52
    BY <2>1, Only52Rare, SequenceOther DEF Only52
  <2> QED BY <2>2, <2>3, NumberedOther DEF Only52
<1>6. dec2_table[b] \notin Only52
  <2> DEFINE cases == [DA2 |-> {99}]
  <2>1. DOMAIN cases \cap Only52 = {}
    BY DEF Only52
  <2>2. dec2_table = Numbered(Sequence(63, "CSI_IGNORE", cases))
    BY DEF dec2_table
  <2> HIDE DEF cases
  <2>3. Sequence(63, "CSI_IGNORE", cases)[b] \notin Only52
    BY <2>1, Only52Rare, SequenceOther DEF Only52
  <2> QED BY <2>2, <2>3, NumberedOther DEF Only52
<1>7. dec3_table[b] \notin Only52
  <2> DEFINE cases == [DECRPTUI |-> {99}]
  <2>1. DOMAIN cases \cap Only52 = {}
    BY DEF Only52
  <2>2. dec3_table = Numbered(Sequence(63, "CSI_IGNORE", cases))
    BY DEF dec3_table
  <2> HIDE DEF cases
  <2>3. Sequence(63, "CSI_IGNORE", cases)[b] \notin Only52
    BY <2>1, Only52Rare, SequenceOther DEF Only52
  <2> QED BY <2>2, <2>3, NumberedOther DEF Only52
<1>8. esc_table[b] \notin Only52
  <2> DEFINE cases == [ESC_SP_STATE |-> {32}, SCR_STATE |-> {35}, SCS0_STATE |-> {40},
        SCS1_STATE |-> {41}, SCS2_STATE |-> {42}, SCS3_STATE |-> {43}, DECSC |-> {55},
        DECRC |-> {56}, DECKPAM |-> {61}, DECKPNM |-> {62}, IND |-> {68}, NEL |-> {69},
        HP_BUGGY_LL |-> {70}, HTS |-> {72}, RI |-> {77}, SS2 |-> {78}, SS3 |-> {79}, DCS
        |-> {80}, XTERM_TITLE |-> {84}, SPA |-> {86}, EPA |-> {87}, SOS |-> {88}, DECID
        |-> {90}, CSI_STATE |-> {91}, ST |-> {92}, OSC |-> {93}, PM |-> {94}, APC |->
        {95}, RIS |-> {99}, HP_MEM_LOCK |-> {108}, HP_MEM_UNLOCK |-> {109}, LS2 |-> {110},
        LS3 |-> {111}, LS3R |-> {124}, LS2R |-> {125}, LS1R |-> {126}]
  <2>1. DOMAIN cases \cap Only52 = {}
    BY DEF Only52
  <2>2. esc_table = Sequence(47, "ESC_IGNORE", cases)
    BY DEF esc_table
  <2> HIDE DEF cases
  <2> QED BY <2>1, <2>2, Only52Rare, SequenceOther DEF Only52
<1>9. esc_sp_table[b] \notin Only52
  <2> DEFINE cases == [S7C1T |-> {70}, S8C1T |-> {71}, ANSI_LEVEL_1 |-> {76}, ANSI_LEVEL_2 |->
        {77}, ANSI_LEVEL_3 |-> {78}]
  <2>1. DOMAIN cases \cap Only52 = {}
    BY DEF Only52
  <2>2. esc_sp_table = Sequence(47, "ESC_IGNORE", cases)
    BY DEF esc_sp_table
  <2> HIDE DEF cases
  <2> QED BY <2>1, <2>2, Only52Rare, SequenceOther DEF Only52
<1>10. scrtable[b] \notin Only52
  <2> DEFINE cases == [DECDHL |-> {51, 52}, DECSWL |-> {53}, DECDWL |-> {54}, DECALN |-> {56}]
  <2>1. DOMAIN cases \cap Only52 = {}
    BY DEF Only52
  <2>2. scrtable = Sequence(47, "ESC_IGNORE", cases)
    BY DEF scrtable
  <2> HIDE DEF cases
  <2> QED BY <2>1, <2>2, Only52Rare, SequenceOther DEF Only52
<1>11. scstable[b] \notin Only52
  <2> DEFINE cases == [GSETS |-> (48..50) \cup (52..55) \cup {61} \cup (65..67) \cup {69, 72,
        75, 81, 82, 89, 90}]
  <2>1. DOMAIN cases \cap Only52 = {}
    BY DEF Only52
  <2>2. scstable = Sequence(47, "ESC_IGNORE", cases)
    BY DEF scstable
  <2> HIDE DEF cases
  <2> QED BY <2>1, <2>2, Only52Rare, SequenceOther DEF Only52
<1>12. cigtable[b] \notin Only52
  <2>1. DOMAIN << >> \cap Only52 = {}
    OBVIOUS
  <2> QED BY <2>1, Only52Rare, SequenceOther DEF cigtable, Only52
<1>13. eigtable[b] \notin Only52
  <2>1. DOMAIN << >> \cap Only52 = {}
    OBVIOUS
  <2> QED BY <2>1, Only52Rare, SequenceOther DEF eigtable, Only52
<1>14. csi_table[b] \notin Only52
  <2> DEFINE cases == [DEC3_STATE |-> {61, 189}, DEC2_STATE |-> {62, 190},
        DEC_STATE |-> {63, 191}]
  <2>1. csi_table[b] = Named(cases, b, csi2_table[b])
    BY DEF csi_table
  <2>2. DOMAIN cases \cap Only52 = {}
    BY DEF Only52
  <2> HIDE DEF cases
  <2> QED BY <1>2, <2>1, <2>2, NamedIn
<1>15. sos_table[b] \notin Only52
  BY Only52Rare, C0Other, C1Cases DEF sos_table, Basic
<1>16. table \in {"ansi_table", "csi_table", "csi2_table", "csi_ex_table", "csi_quo_table",
     "dec_table", "dec2_table", "dec3_table", "cigtable", "eigtable", "esc_table",
     "esc_sp_table", "scrtable", "scstable", "sos_table"}
  BY DEF Tables, Vt52Tables
<1> QED
  BY <1>1, <1>2, <1>3, <1>4, <1>5, <1>6, <1>7, <1>8, <1>9, <1>10, <1>11, <1>12, <1>13,
     <1>14, <1>15, <1>16 DEF Tables

\* What Looked says of a byte, as VT52 and otherwise.
LEMMA LookedCases ==
  ASSUME NEW c \in 0..255, parsestate \in DOMAIN Tables
  PROVE  /\ parsestate \in Vt52Tables => Looked(c) \in Vt52Cases
         /\ parsestate \notin Vt52Tables => Looked(c) \notin Only52
<1> DEFINE b == IF c1_printable /\ c \in 128..159 THEN 160 ELSE c
           t == Tables[parsestate][b]
<1>1. b \in 0..255
  OBVIOUS
<1>2. Looked(c) = IF c1_printable /\ c \in 128..159 /\ t = "ESC_SP_STATE" THEN "ESC_IGNORE"
                  ELSE t
  BY DEF Looked
<1> HIDE DEF b
<1>3. parsestate \in Vt52Tables => t \in Vt52Cases
  BY <1>1, Vt52Said
<1>4. parsestate \notin Vt52Tables => t \notin Only52
  BY <1>1, OtherSaid
<1> HIDE DEF t
<1>5. CASE parsestate \in Vt52Tables
  BY <1>2, <1>3, <1>5 DEF Vt52Cases
<1>6. CASE parsestate \notin Vt52Tables
  BY <1>2, <1>4, <1>6 DEF Only52
<1> QED BY <1>5, <1>6

-----------------------------------------------------------------------------
(* The level and the ground table.                                         *)

LevelInv ==
  /\ groundtable \in {"ansi_table", "vt52_table"}
  /\ parsestate \in DOMAIN Tables
  /\ ansi_level \in Nat
  /\ groundtable = "vt52_table" <=> ansi_level = 0
  /\ parsestate \in Vt52Tables <=> ansi_level = 0
  /\ vt52_cup => ansi_level = 0
  /\ terminal_id < 100 => ansi_level = 0

LEMMA LevelInit == ParserInit => LevelInv
BY BoundAssumption DEF ParserInit, LevelInv, Tables, Vt52Tables

LEMMA LevelSettled ==
  ASSUME LevelInv, NEW t, Settled(t), ~vt52_cup,
         ansi_level = 0 => t \in Vt52Cases, ansi_level # 0 => t \notin Only52
  PROVE  LevelInv'
<1> USE DEF LevelInv
<1>1. CASE Stay(t)
  BY <1>1 DEF Stay
<1>2. CASE ShiftInOut(t)
  BY <1>2 DEF ShiftInOut
<1>3. CASE Enter(t)
  <2>1. CASE ansi_level = 0
    <3>1. t = "VT52_IGNORE"
      BY <1>3, <2>1 DEF Enter, Entry, Vt52Cases
    <3> QED BY <1>3, <2>1, <3>1 DEF Enter, Entry, Tables, Vt52Tables
  <2>2. CASE ansi_level # 0
    <3>1. Entry[t] \in DOMAIN Tables \ Vt52Tables
      BY <1>3, <2>2 DEF Enter, Entry, Only52, Tables, Vt52Tables
    <3> QED BY <1>3, <2>2, <3>1 DEF Enter
  <2> QED BY <2>1, <2>2
<1>4. CASE Escape(t)
  BY <1>4 DEF Escape, Tables, Vt52Tables
<1>5. CASE ControlSequence(t)
  BY <1>5 DEF ControlSequence, Vt52Cases, Tables, Vt52Tables
<1>6. CASE DigitOrSemi(t)
  BY <1>6 DEF DigitOrSemi, Vt52Cases, Tables, Vt52Tables
<1>7. CASE VT52_CUP(t)
  BY <1>7 DEF VT52_CUP, Only52
<1>8. CASE StartString(t)
  BY <1>8 DEF StartString, Starts, Vt52Cases, Tables, Vt52Tables
<1>9. CASE BELL(t)
  BY <1>9 DEF BELL, Ground, Tables, Vt52Tables
<1>10. CASE ST(t)
  BY <1>10 DEF ST, Ground, Tables, Vt52Tables
<1>11. CASE Function(t)
  BY <1>11 DEF Function, Ground, Tables, Vt52Tables
<1>12. CASE DECID(t)
  BY <1>12 DEF DECID, Ground, Tables, Vt52Tables
<1>13. CASE SingleShift(t)
  BY <1>13 DEF SingleShift, Ground, Tables, Vt52Tables
<1>14. CASE LockingShift(t)
  BY <1>14 DEF LockingShift, Ground, Tables, Vt52Tables
<1>15. CASE SaveOrRestore(t)
  BY <1>15 DEF SaveOrRestore, Ground, Tables, Vt52Tables
<1>16. CASE ANSI_LEVEL(t)
  <2>1. CASE t = "ANSI_LEVEL_1"
    BY <1>16, <2>1, BoundAssumption DEF ANSI_LEVEL, Tables, Vt52Tables
  <2>2. CASE t # "ANSI_LEVEL_1"
    <3>1. ansi_level # 0
      BY <1>16, <2>2 DEF ANSI_LEVEL, Vt52Cases
    <3> QED BY <1>16, <2>2, <3>1, BoundAssumption DEF ANSI_LEVEL, Tables, Vt52Tables
  <2> QED BY <2>1, <2>2
<1>17. CASE DECSCL(t)
  BY <1>17 DEF DECSCL, Vt52Cases, Tables, Vt52Tables
<1>18. CASE DECSET(t)
  BY <1>18 DEF DECSET, Vt52Cases, Tables, Vt52Tables
<1>19. CASE DECRST(t)
  <2>1. ansi_level # 0 /\ terminal_id >= 100
    BY <1>19, BoundAssumption DEF DECRST, Vt52Cases
  <2>2. /\ ansi_level' \in {0, ansi_level}
        /\ groundtable' = (IF ansi_level' = 0 THEN "vt52_table" ELSE "ansi_table")
        /\ parsestate' = groundtable'
        /\ UNCHANGED vt52_cup
    BY <1>19, <2>1 DEF DECRST
  <2> QED BY <2>1, <2>2 DEF Tables, Vt52Tables
<1> QED
  BY <1>1, <1>2, <1>3, <1>4, <1>5, <1>6, <1>7, <1>8, <1>9, <1>10, <1>11, <1>12, <1>13, <1>14,
     <1>15, <1>16, <1>17, <1>18, <1>19 DEF Settled

LEMMA LevelReset == ASSUME LevelInv, VTReset PROVE LevelInv'
BY DEF LevelInv, VTReset, Tables, Vt52Tables

LEMMA LevelNext == LevelInv /\ [ParserNext]_parser => LevelInv'
<1> SUFFICES ASSUME LevelInv, [ParserNext]_parser PROVE LevelInv'
  OBVIOUS
<1>1. CASE CupByte
  BY <1>1 DEF CupByte, LevelInv, Tables, Vt52Tables
<1>2. CASE MenuReset
  BY <1>2, LevelReset DEF MenuReset
<1>3. ASSUME NEW c \in Byte, Received(c) PROVE LevelInv'
  <2>1. c \in 0..255
    BY ByteAssumption
  <2>2. /\ ansi_level = 0 => Looked(c) \in Vt52Cases
        /\ ansi_level # 0 => Looked(c) \notin Only52
    BY <2>1, LookedCases DEF LevelInv
  <2>3. CASE Graphic(c)
    BY <2>3 DEF Graphic, LevelInv
  <2>4. CASE Settled(Looked(c))
    <3>1. ~vt52_cup
      BY <1>3 DEF Received
    <3> QED BY <2>2, <2>4, <3>1, LevelSettled
  <2>5. CASE Reset(Looked(c))
    BY <2>5, LevelReset DEF Reset
  <2> QED BY <1>3, <2>3, <2>4, <2>5 DEF Received
<1>4. CASE UNCHANGED parser
  BY <1>4 DEF LevelInv
<1> QED BY <1>1, <1>2, <1>3, <1>4 DEF ParserNext

\* The ground table is always that of the level that the terminal has, for
\* every terminal and after any bytes (groundtable, charproc.c:1893).
THEOREM LevelKnown == ParserSpec => []LevelMatchesGround
<1>1. LevelInv => LevelMatchesGround
  BY DEF LevelInv, LevelMatchesGround
<1> QED BY <1>1, LevelInit, LevelNext, PTL DEF ParserSpec

-----------------------------------------------------------------------------
(* The ends of sequences.                                                  *)

CupInv == vt52_cup => nextstate \in {"VT52_CUP", "none"}

LEMMA CupNext == CupInv /\ [ParserNext]_parser => CupInv'
<1> SUFFICES ASSUME CupInv, [ParserNext]_parser PROVE CupInv'
  OBVIOUS
<1>1. CASE CupByte
  BY <1>1 DEF CupByte, CupInv
<1>2. CASE MenuReset
  BY <1>2 DEF MenuReset, VTReset, CupInv
<1>3. ASSUME NEW c \in Byte, Received(c) PROVE CupInv'
  <2>1. ~vt52_cup
    BY <1>3 DEF Received
  <2>2. CASE Graphic(c) \/ Reset(Looked(c))
    BY <2>1, <2>2 DEF Graphic, Reset, VTReset, CupInv
  <2>3. CASE nextstate' = Looked(c) /\ Settled(Looked(c))
    <3>1. CASE VT52_CUP(Looked(c))
      BY <2>3, <3>1 DEF VT52_CUP, CupInv
    <3>2. CASE ~VT52_CUP(Looked(c))
      <4>1. UNCHANGED vt52_cup
        BY <2>3, <3>2 DEF Settled, Stay, ShiftInOut, Enter, Escape, ControlSequence,
             DigitOrSemi, StartString, BELL, ST, Function, DECID, SingleShift, LockingShift,
             SaveOrRestore, ANSI_LEVEL, DECSCL, DECSET, DECRST
      <4> QED BY <2>1, <4>1 DEF CupInv
    <3> QED BY <3>1, <3>2
  <2> QED BY <1>3, <2>2, <2>3 DEF Received
<1>4. CASE UNCHANGED parser
  BY <1>4 DEF CupInv
<1> QED BY <1>1, <1>2, <1>3, <1>4 DEF ParserNext

\* No function that ends a sequence leaves the table of the sequence in use,
\* for every terminal and after any bytes: the QED case by case is the switch
\* of VTparse (charproc.c:1241).
THEOREM SequencesEnd == ParserSpec => FunctionsEnd
<1> DEFINE Ends == nextstate' \in Functions /\ parsestate' # groundtable' =>
                     \/ nextstate' = "ST" /\ Kept[2] = 0
                     \/ nextstate' = "S8C1T" /\ ansi_level <= 1
<1>1. ParserInit => CupInv
  BY DEF ParserInit, CupInv
<1>2. CupInv /\ [ParserNext]_parser => [Ends]_parser
  <2> SUFFICES ASSUME CupInv, ParserNext PROVE Ends
    OBVIOUS
  <2> USE DEF Functions, Without, First, Pair, Every, Careless
  <2>1. CASE CupByte
    BY <2>1 DEF CupByte, CupInv
  <2>2. CASE MenuReset
    BY <2>2 DEF MenuReset, VTReset
  <2>3. ASSUME NEW c \in Byte, Received(c) PROVE Ends
    <3> DEFINE t == Looked(c)
    <3>1. CASE nextstate' = t /\ Graphic(c)
      BY <3>1 DEF Graphic
    <3>2. CASE Reset(t)
      BY <3>2 DEF Reset, VTReset
    <3>3. CASE nextstate' = t /\ Settled(t)
      <4> HIDE DEF t
      <4>1. CASE Stay(t)
        BY <3>3, <4>1 DEF Stay
      <4>2. CASE ShiftInOut(t) \/ Escape(t) \/ ControlSequence(t) \/ DigitOrSemi(t) \/ VT52_CUP(t)
        BY <3>3, <4>2 DEF ShiftInOut, Escape, ControlSequence, DigitOrSemi, VT52_CUP
      <4>3. CASE Enter(t)
        BY <3>3, <4>3 DEF Enter, Entry
      <4>4. CASE StartString(t) \/ BELL(t)
        BY <3>3, <4>4 DEF StartString, BELL, Starts
      <4>5. CASE ST(t)
        BY <3>3, <4>5 DEF ST, Ground
      <4>6. CASE Function(t) \/ DECID(t) \/ SingleShift(t) \/ LockingShift(t) \/ SaveOrRestore(t)
        BY <4>6 DEF Function, DECID, SingleShift, LockingShift, SaveOrRestore, Ground
      <4>7. CASE ANSI_LEVEL(t) \/ DECSCL(t) \/ DECSET(t) \/ DECRST(t)
        BY <4>7 DEF ANSI_LEVEL, DECSCL, DECSET, DECRST
      <4> QED BY <3>3, <4>1, <4>2, <4>3, <4>4, <4>5, <4>6, <4>7 DEF Settled
    <3> QED BY <2>3, <3>1, <3>2, <3>3 DEF Received
  <2> QED BY <2>1, <2>2, <2>3 DEF ParserNext
<1>3. CupInv /\ [ParserNext]_parser => CupInv'
  BY CupNext
<1> QED BY <1>1, <1>2, <1>3, PTL DEF ParserSpec, FunctionsEnd

-----------------------------------------------------------------------------
(* Strings.                                                                *)

StringInv ==
  /\ groundtable \in {"ansi_table", "vt52_table"}
  /\ string_used \in Nat /\ own \in Nat /\ joined \in BOOLEAN
  /\ parsestate = "sos_table" => string_mode # "none"
  /\ parsestate \in {"sos_table", "esc_table"} =>
       /\ string_mode = "none" => string_used = 0
       /\ string_mode # "none" /\ ~joined => string_used = own

\* What a step that is not in a string keeps.
Whole(s) ==
  /\ s[2] \in Nat /\ s[3] \in Nat /\ s[4] \in BOOLEAN
  /\ s[1] = "none" => s[2] = 0
  /\ s[1] # "none" /\ ~s[4] => s[2] = s[3]

LEMMA KeptWhole ==
  ASSUME StringInv
  PROVE  /\ Whole(Kept)
         /\ parsestate = "sos_table" => Kept[1] # "none"
         /\ Kept = <<Kept[1], Kept[2], Kept[3], Kept[4]>>
<1>1. CASE parsestate = "sos_table"
  BY <1>1 DEF Kept, Whole, StringInv
<1>2. CASE parsestate = "esc_table"
  BY <1>2 DEF Kept, Whole, StringInv
<1>3. CASE parsestate \notin {"sos_table", "esc_table"}
  BY <1>3 DEF Kept, Whole, StringInv
<1> QED BY <1>1, <1>2, <1>3

\* A step that keeps the string, and does not start one.
LEMMA KeepsWhole ==
  ASSUME StringInv, KeepString, groundtable' \in {"ansi_table", "vt52_table"},
         parsestate' = "sos_table" => parsestate = "sos_table"
  PROVE  StringInv'
BY KeptWhole DEF KeepString, Strings, Whole, StringInv

\* The string that a step has interpreted is whole.
HandWhole == \A s \in handed' : ~s.joined => s.used = s.own

LEMMA HandsWhole == ASSUME StringInv, Kept[1] # "none", Hand PROVE HandWhole
<1> DEFINE s == [used |-> Kept[2] - 1, own |-> Kept[3] - 1, joined |-> Kept[4]]
<1>1. handed' = {s}
  BY DEF Hand
<1>2. ~s.joined => s.used = s.own
  BY KeptWhole DEF Whole
<1> QED BY <1>1, <1>2 DEF HandWhole

LEMMA StringSettled ==
  ASSUME StringInv, NEW t, Settled(t)
  PROVE  StringInv' /\ HandWhole
<1> USE DEF StringInv
<1>1. CASE Stay(t) \/ ShiftInOut(t) \/ Escape(t) \/ ControlSequence(t) \/ DigitOrSemi(t)
           \/ VT52_CUP(t)
  <2>1. KeepString /\ groundtable' = groundtable /\ handed' = {}
        /\ parsestate' \in {parsestate, "esc_table", "vt52_esc_table", "csi_table", "csi2_table"}
    BY <1>1 DEF Stay, ShiftInOut, Escape, ControlSequence, DigitOrSemi, VT52_CUP
  <2> QED BY <2>1, KeepsWhole DEF HandWhole
<1>2. CASE Enter(t)
  <2>1. KeepString /\ groundtable' = groundtable /\ handed' = {} /\ parsestate' # "sos_table"
    BY <1>2 DEF Enter, Entry
  <2> QED BY <2>1, KeepsWhole DEF HandWhole
<1>3. CASE StartString(t)
  <2>1. /\ parsestate' = "sos_table" /\ groundtable' = groundtable /\ handed' = {}
        /\ string_mode' = t /\ string_used' = Kept[2] /\ own' = 0
        /\ joined' = (Kept[1] # "none")
        /\ t # "none"
    BY <1>3 DEF StartString, Strings, Starts
  <2> QED BY <2>1, KeptWhole DEF Whole, HandWhole
<1>4. CASE BELL(t)
  <2>1. CASE Kept[1] = "OSC"
    <3>1. Hand /\ parsestate' = groundtable /\ groundtable' = groundtable
      BY <1>4, <2>1 DEF BELL, Ground
    <3>2. /\ string_used' = (IF Kept[2] > 0 THEN Kept[2] - 1 ELSE 0)
          /\ own' = Kept[3] /\ joined' = Kept[4]
      BY <1>4, <2>1, KeptWhole DEF BELL, Strings
    <3> QED BY <2>1, <3>1, <3>2, HandsWhole, KeptWhole DEF Whole
  <2>2. CASE Kept[1] # "OSC"
    BY <1>4, <2>2, KeepsWhole DEF BELL, HandWhole
  <2> QED BY <2>1, <2>2
<1>5. CASE ST(t)
  <2>1. CASE Kept[2] = 0
    BY <1>5, <2>1, KeepsWhole DEF ST, HandWhole
  <2>2. CASE Kept[2] # 0
    <3>1. parsestate' = groundtable /\ groundtable' = groundtable
      BY <1>5, <2>2 DEF ST, Ground
    <3>2. string_used' = Kept[2] - 1 /\ own' = Kept[3] /\ joined' = Kept[4]
      BY <1>5, <2>2, KeptWhole DEF ST, Strings
    <3>3. HandWhole
      <4>1. CASE Kept[1] \in {"DCS", "OSC"}
        BY <1>5, <2>2, <4>1, HandsWhole DEF ST
      <4>2. CASE Kept[1] \notin {"DCS", "OSC"}
        BY <1>5, <2>2, <4>2 DEF ST, HandWhole
      <4> QED BY <4>1, <4>2
    <3> QED BY <2>2, <3>1, <3>2, <3>3, KeptWhole DEF Whole
  <2> QED BY <2>1, <2>2
<1>6. CASE Function(t) \/ DECID(t) \/ SingleShift(t) \/ LockingShift(t) \/ SaveOrRestore(t)
  <2>1. KeepString /\ groundtable' = groundtable /\ parsestate' = groundtable /\ handed' = {}
    BY <1>6 DEF Function, DECID, SingleShift, LockingShift, SaveOrRestore, Ground
  <2> QED BY <2>1, KeepsWhole DEF HandWhole
<1>7. CASE ANSI_LEVEL(t) \/ DECSCL(t) \/ DECSET(t) \/ DECRST(t)
  <2>1. /\ KeepString /\ handed' = {} /\ groundtable' \in {"ansi_table", "vt52_table"}
        /\ parsestate' \in {"ansi_table", "vt52_table"}
    BY <1>7 DEF ANSI_LEVEL, DECSCL, DECSET, DECRST
  <2> QED BY <2>1, KeepsWhole DEF HandWhole
<1> QED BY <1>1, <1>2, <1>3, <1>4, <1>5, <1>6, <1>7 DEF Settled

LEMMA StringNext == StringInv /\ ParserNext => StringInv' /\ HandWhole
<1> SUFFICES ASSUME StringInv, ParserNext PROVE StringInv' /\ HandWhole
  OBVIOUS
<1>1. CASE CupByte
  BY <1>1 DEF CupByte, StringInv, HandWhole
<1>2. CASE MenuReset
  BY <1>2 DEF MenuReset, VTReset, StringInv, HandWhole
<1>3. ASSUME NEW c \in Byte, Received(c) PROVE StringInv' /\ HandWhole
  <2>1. CASE Graphic(c)
    <3>1. CASE UNCHANGED strings
      BY <2>1, <3>1 DEF Graphic, StringInv, HandWhole
    <3>2. CASE KeepString
      BY <2>1, <3>2, KeepsWhole DEF Graphic, StringInv, HandWhole
    <3> QED BY <2>1, <3>1, <3>2 DEF Graphic
  <2>2. CASE Settled(Looked(c))
    BY <2>2, StringSettled
  <2>3. CASE Reset(Looked(c))
    BY <2>3, KeptWhole DEF Reset, VTReset, Strings, Whole, StringInv, HandWhole
  <2> QED BY <1>3, <2>1, <2>2, <2>3 DEF Received
<1> QED BY <1>1, <1>2, <1>3 DEF ParserNext

\* A command string is interpreted with all its bytes and no others, however
\* long it is and whatever was received before (string_used, charproc.c:1100).
THEOREM StringsWhole == ParserSpec => StringWhole
<1>1. ParserInit => StringInv
  <2> SUFFICES ASSUME ParserInit PROVE StringInv
    OBVIOUS
  <2>1. groundtable \in {"ansi_table", "vt52_table"} /\ parsestate = groundtable
    BY DEF ParserInit
  <2>2. string_used = 0 /\ own = 0 /\ joined = FALSE
    BY DEF ParserInit
  <2> QED BY <2>1, <2>2 DEF StringInv
<1>2. StringInv /\ [ParserNext]_parser => StringInv'
  BY StringNext DEF StringInv
<1>3. StringInv /\ [ParserNext]_parser => [\A s \in handed' : ~s.joined => s.used = s.own]_parser
  BY StringNext DEF HandWhole
<1> QED BY <1>1, <1>2, <1>3, PTL DEF ParserSpec, StringWhole

-----------------------------------------------------------------------------
(* Character sets.                                                         *)

SetOf(i) == IF i = 1 /\ curss # 0 THEN curss ELSE curgl

TextInv ==
  /\ {curgl, curss, single} \subseteq 0..3 /\ sc_curgl \in -1..3
  /\ print_area \in Seq(0..3)
  /\ print_area # << >> => nextstate = "PRINT" /\ single = 0
  /\ print_area = << >> => single = curss
  /\ \A i \in DOMAIN print_area : print_area[i] = SetOf(i)

DrawnTrue == \A d \in drawn' : d[1] = d[2]

LEMMA TextEnds ==
  ASSUME TextInv
  PROVE  /\ Ended = print_area
         /\ CurssLeft = (IF print_area = << >> THEN curss ELSE 0)
         /\ \A d \in Drawn(Ended) : d[1] = d[2]
<1>1. Ended = print_area
  BY DEF Ended, TextInv
<1> QED BY <1>1 DEF CurssLeft, Drawn, TextInv, SetOf

\* What a byte that is not text does to the sets.
Shifted ==
  \/ curss' = CurssLeft /\ single' = single /\ curgl' \in 0..3 /\ sc_curgl' \in -1..3
  \/ single' = curss' /\ {curss', curgl'} \subseteq 0..3 /\ sc_curgl' \in -1..3

LEMMA ShiftedNext ==
  ASSUME TextInv, Shifted, print_area' = << >>
  PROVE  TextInv'
<1>1. curss' = single' /\ curss' \in 0..3 /\ curgl' \in 0..3 /\ sc_curgl' \in -1..3
  BY TextEnds DEF Shifted, TextInv
<1> QED BY <1>1 DEF TextInv, SetOf

LEMMA SettledShifts ==
  ASSUME TextInv, NEW t, Settled(t)
  PROVE  Shifted
<1> USE DEF TextInv, Shifted, NoShift, resetCharsets, CursorSave, CursorRestore
<1>1. CASE Stay(t) \/ ShiftInOut(t) \/ Enter(t) \/ Escape(t) \/ ControlSequence(t)
           \/ DigitOrSemi(t) \/ VT52_CUP(t)
  BY <1>1 DEF Stay, ShiftInOut, Enter, Escape, ControlSequence, DigitOrSemi, VT52_CUP
<1>2. CASE StartString(t) \/ BELL(t) \/ ST(t) \/ Function(t) \/ DECID(t)
  BY <1>2 DEF StartString, BELL, ST, Function, DECID
<1>3. CASE SingleShift(t) \/ LockingShift(t)
  BY <1>3 DEF SingleShift, LockingShift
<1>4. CASE SaveOrRestore(t)
  BY <1>4 DEF SaveOrRestore
<1>5. CASE ANSI_LEVEL(t) \/ DECSCL(t)
  BY <1>5 DEF ANSI_LEVEL, DECSCL
<1>6. CASE DECSET(t)
  BY <1>6 DEF DECSET
<1>7. CASE DECRST(t)
  BY <1>7 DEF DECRST
<1> QED BY <1>1, <1>2, <1>3, <1>4, <1>5, <1>6, <1>7 DEF Settled

LEMMA GraphicDraws ==
  ASSUME TextInv, NEW c, Graphic(c), nextstate' = Looked(c)
  PROVE  TextInv' /\ DrawnTrue
<1> DEFINE last == IF single # 0 THEN single ELSE curgl
           text == Append(print_area, last)
<1>1. last \in 0..3
  BY DEF TextInv
<1>2. text \in Seq(0..3) /\ text # << >> /\ Len(text) = Len(print_area) + 1
  BY <1>1 DEF TextInv
<1>3. \A i \in DOMAIN text : text[i] = SetOf(i)
  <2> TAKE i \in DOMAIN text
  <2>1. i \in 1 .. Len(print_area) + 1
    BY <1>2
  <2>2. CASE i \in 1 .. Len(print_area)
    BY <1>1, <2>2 DEF TextInv
  <2>3. CASE i = Len(print_area) + 1
    <3>1. text[i] = last
      BY <1>1, <2>3 DEF TextInv
    <3>2. CASE print_area = << >>
      BY <2>3, <3>1, <3>2 DEF TextInv, SetOf
    <3>3. CASE print_area # << >>
      BY <2>3, <3>1, <3>3 DEF TextInv, SetOf
    <3> QED BY <3>2, <3>3
  <2> QED BY <2>1, <2>2, <2>3
<1>4. /\ nextstate' = "PRINT" /\ single' = 0 /\ UNCHANGED <<curgl, sc_curgl>>
      /\ \/ print_area' = text /\ drawn' = {} /\ UNCHANGED curss
         \/ print_area' = << >> /\ drawn' = Drawn(text) /\ curss' = 0
  BY DEF Graphic
<1> HIDE DEF last, text
<1>5. CASE print_area' = text /\ drawn' = {} /\ UNCHANGED curss
  BY <1>2, <1>3, <1>4, <1>5 DEF TextInv, DrawnTrue, SetOf
<1>6. CASE print_area' = << >> /\ drawn' = Drawn(text) /\ curss' = 0
  BY <1>2, <1>3, <1>4, <1>6 DEF TextInv, DrawnTrue, SetOf, Drawn
<1> QED BY <1>4, <1>5, <1>6

LEMMA TextNext == TextInv /\ ParserNext => TextInv' /\ DrawnTrue
<1> SUFFICES ASSUME TextInv, ParserNext PROVE TextInv' /\ DrawnTrue
  OBVIOUS
<1>1. CASE CupByte
  BY <1>1 DEF CupByte, TextInv, SetOf, DrawnTrue
<1>2. CASE MenuReset
  <2>1. Shifted /\ print_area' = << >> /\ drawn' = {}
    BY <1>2 DEF MenuReset, VTReset, resetCharsets, Shifted
  <2> QED BY <2>1, ShiftedNext DEF DrawnTrue
<1>3. ASSUME NEW c \in Byte, Received(c) PROVE TextInv' /\ DrawnTrue
  <2>1. CASE nextstate' = Looked(c) /\ Graphic(c)
    BY <2>1, GraphicDraws
  <2>2. CASE ~(nextstate' = Looked(c) /\ Graphic(c))
    <3>1. print_area' = << >> /\ drawn' = Drawn(Ended)
      BY <1>3, <2>2, TextEnds DEF Received
    <3>2. CASE Settled(Looked(c))
      BY <3>1, <3>2, SettledShifts, ShiftedNext, TextEnds DEF DrawnTrue
    <3>3. CASE Reset(Looked(c))
      <4>1. Shifted
        BY <3>3 DEF Reset, VTReset, resetCharsets, Shifted
      <4> QED BY <3>1, <4>1, ShiftedNext, TextEnds DEF DrawnTrue
    <3> QED BY <1>3, <2>2, <3>2, <3>3 DEF Received
  <2> QED BY <2>1, <2>2
<1> QED BY <1>1, <1>2, <1>3 DEF ParserNext

\* However text and shifts follow each other, in one buffer or in many, each
\* character is drawn in the set that was selected when it arrived
\* (charproc.c:1076, 1148).
THEOREM TextDrawn == ParserSpec => TextInItsSet
<1>1. ParserInit => TextInv
  BY DEF ParserInit, TextInv
<1>2. TextInv /\ [ParserNext]_parser => TextInv'
  BY TextNext DEF TextInv, SetOf
<1>3. TextInv /\ [ParserNext]_parser => [\A d \in drawn' : d[1] = d[2]]_parser
  BY TextNext DEF DrawnTrue
<1> QED BY <1>1, <1>2, <1>3, PTL DEF ParserSpec, TextInItsSet

-----------------------------------------------------------------------------
(* What functions read.                                                    *)

\* The cases that need parameters or go on in a sequence that has some.
Wanting == First \cup Pair \cup Every \cup Careless \cup
  {"ESC_DIGIT", "ESC_SEMI", "DEC_STATE", "DEC2_STATE", "DEC3_STATE", "CSI_QUOTE_STATE"}
Quoted == {"DECSCL", "DECSCA"}

\* The tables without parameters.
Bare == {"ansi_table", "csi_ex_table", "cigtable", "eigtable", "esc_table", "esc_sp_table",
  "scrtable", "scstable", "sos_table"}

LEMMA WantingRare == Wanting \cap Basic = {}
BY DEF Wanting, First, Pair, Every, Careless, Basic

LEMMA BareSaid ==
  ASSUME NEW table \in Bare, NEW b \in 0..255
  PROVE  Tables[table][b] \notin Wanting
<1> USE DEF Wanting, First, Pair, Every, Careless
<1>1. ansi_table[b] \notin Wanting
  <2>1. \A a \in 32..127 : [x \in 32..127 |-> "PRINT"][a] \notin Wanting
    OBVIOUS
  <2> HIDE DEF Wanting
  <2> QED BY <2>1, WantingRare, TableOther DEF ansi_table
<1>2. csi_ex_table[b] \notin Wanting
  <2> DEFINE cases == [DECSTR |-> {112}]
  <2>1. DOMAIN cases \cap Wanting = {} /\ "CSI_IGNORE" \notin Wanting
    OBVIOUS
  <2>2. csi_ex_table = Sequence(63, "CSI_IGNORE", cases)
    BY DEF csi_ex_table
  <2> HIDE DEF cases, Wanting
  <2> QED BY <2>1, <2>2, WantingRare, SequenceOther
<1>3. cigtable[b] \notin Wanting /\ eigtable[b] \notin Wanting
  <2>1. DOMAIN << >> \cap Wanting = {} /\ "IGNORE" \notin Wanting
    OBVIOUS
  <2> HIDE DEF Wanting
  <2> QED BY <2>1, WantingRare, SequenceOther DEF cigtable, eigtable
<1>4. esc_table[b] \notin Wanting
  <2> DEFINE cases == [ESC_SP_STATE |-> {32}, SCR_STATE |-> {35}, SCS0_STATE |-> {40},
        SCS1_STATE |-> {41}, SCS2_STATE |-> {42}, SCS3_STATE |-> {43}, DECSC |-> {55},
        DECRC |-> {56}, DECKPAM |-> {61}, DECKPNM |-> {62}, IND |-> {68}, NEL |-> {69},
        HP_BUGGY_LL |-> {70}, HTS |-> {72}, RI |-> {77}, SS2 |-> {78}, SS3 |-> {79}, DCS
        |-> {80}, XTERM_TITLE |-> {84}, SPA |-> {86}, EPA |-> {87}, SOS |-> {88}, DECID
        |-> {90}, CSI_STATE |-> {91}, ST |-> {92}, OSC |-> {93}, PM |-> {94}, APC |->
        {95}, RIS |-> {99}, HP_MEM_LOCK |-> {108}, HP_MEM_UNLOCK |-> {109}, LS2 |-> {110},
        LS3 |-> {111}, LS3R |-> {124}, LS2R |-> {125}, LS1R |-> {126}]
  <2>1. DOMAIN cases \cap Wanting = {} /\ "ESC_IGNORE" \notin Wanting
    OBVIOUS
  <2>2. esc_table = Sequence(47, "ESC_IGNORE", cases)
    BY DEF esc_table
  <2> HIDE DEF cases, Wanting
  <2> QED BY <2>1, <2>2, WantingRare, SequenceOther
<1>5. esc_sp_table[b] \notin Wanting
  <2> DEFINE cases == [S7C1T |-> {70}, S8C1T |-> {71}, ANSI_LEVEL_1 |-> {76}, ANSI_LEVEL_2 |->
        {77}, ANSI_LEVEL_3 |-> {78}]
  <2>1. DOMAIN cases \cap Wanting = {} /\ "ESC_IGNORE" \notin Wanting
    OBVIOUS
  <2>2. esc_sp_table = Sequence(47, "ESC_IGNORE", cases)
    BY DEF esc_sp_table
  <2> HIDE DEF cases, Wanting
  <2> QED BY <2>1, <2>2, WantingRare, SequenceOther
<1>6. scrtable[b] \notin Wanting
  <2> DEFINE cases == [DECDHL |-> {51, 52}, DECSWL |-> {53}, DECDWL |-> {54}, DECALN |-> {56}]
  <2>1. DOMAIN cases \cap Wanting = {} /\ "ESC_IGNORE" \notin Wanting
    OBVIOUS
  <2>2. scrtable = Sequence(47, "ESC_IGNORE", cases)
    BY DEF scrtable
  <2> HIDE DEF cases, Wanting
  <2> QED BY <2>1, <2>2, WantingRare, SequenceOther
<1>7. scstable[b] \notin Wanting
  <2> DEFINE cases == [GSETS |-> (48..50) \cup (52..55) \cup {61} \cup (65..67) \cup {69, 72,
        75, 81, 82, 89, 90}]
  <2>1. DOMAIN cases \cap Wanting = {} /\ "ESC_IGNORE" \notin Wanting
    OBVIOUS
  <2>2. scstable = Sequence(47, "ESC_IGNORE", cases)
    BY DEF scstable
  <2> HIDE DEF cases, Wanting
  <2> QED BY <2>1, <2>2, WantingRare, SequenceOther
<1>8. sos_table[b] \notin Wanting
  <2>1. sos_table[b] \in Basic
    BY C0Other, C1Cases DEF sos_table, Basic
  <2> HIDE DEF Wanting
  <2> QED BY <2>1, WantingRare
<1> HIDE DEF Wanting
<1> QED BY <1>1, <1>2, <1>3, <1>4, <1>5, <1>6, <1>7, <1>8 DEF Bare, Tables

LEMMA QuoteSaid ==
  ASSUME NEW b \in 0..255
  PROVE  Tables["csi_quo_table"][b] \notin Wanting \ Quoted
<1> DEFINE cases == [DECSCL |-> {112}, DECSCA |-> {113}]
           S == Wanting \ Quoted
<1>1. DOMAIN cases \cap S = {}
  BY DEF Quoted
<1>2. "CSI_IGNORE" \notin S
  BY DEF Wanting, First, Pair, Every, Careless
<1>3. csi_quo_table = Sequence(63, "CSI_IGNORE", cases)
  BY DEF csi_quo_table
<1>4. S \cap Basic = {}
  BY WantingRare
<1> HIDE DEF cases, S
<1>5. csi_quo_table[b] \notin S
  BY <1>1, <1>2, <1>3, <1>4, SequenceOther
<1> QED BY <1>5 DEF Tables, S

InSequence == parsestate \in Sequences \cup {"csi_quo_table"}

\* A sequence has set its parameters; a VT52 that does not wait for the bytes
\* of ESC Y has a row and a column that are 0.
ReadInv ==
  /\ vt52_cup \in BOOLEAN /\ nparam \in 0..NPARAM
  /\ fresh \subseteq 0..NPARAM /\ zeroed \subseteq 0..NPARAM
  /\ InSequence => nparam >= 1 /\ 0 .. nparam - 1 \subseteq fresh
  /\ vt52_cup => nparam <= 1
  /\ ansi_level = 0 /\ ~vt52_cup => {0, 1} \subseteq zeroed

ReadsTrue == read' \ (fresh' \cup zeroed') \subseteq (IF nextstate' \in Careless THEN 1..4 ELSE {})

LEMMA ReadsFresh ==
  ASSUME ReadInv, InSequence, NEW t, NEW r \in Reads(t)
  PROVE  r \ fresh \subseteq (IF t \in Careless THEN 1..4 ELSE {})
<1>1. nparam \in Nat /\ nparam >= 1 /\ 0 .. nparam - 1 \subseteq fresh
  BY DEF ReadInv
<1>2. 0 \in fresh
  BY <1>1
<1>3. CASE t \in First
  <2>1. t \notin Pair \cup Every \cup {"TRACK_MOUSE", "DECSCL", "XTERM_WINOPS"}
    BY <1>3 DEF First, Pair, Every
  <2>2. Reads(t) = {{0}}
    BY <1>3, <2>1 DEF Reads
  <2> QED BY <1>2, <2>2
<1>4. CASE t \in Pair \ First
  <2>1. r = (IF nparam < 2 THEN {0} ELSE {0, 1})
    <3>1. t \notin First \cup Every \cup {"TRACK_MOUSE", "DECSCL", "XTERM_WINOPS"}
      BY <1>4 DEF Pair, Every
    <3>2. Reads(t) = {IF nparam < 2 THEN {0} ELSE {0, 1}}
      BY <1>4, <3>1 DEF Reads
    <3> QED BY <3>2
  <2>2. CASE nparam < 2
    BY <1>2, <2>1, <2>2
  <2>3. CASE ~(nparam < 2)
    <3>1. 1 \in fresh
      BY <1>1, <2>3
    <3> QED BY <1>2, <2>1, <2>3, <3>1
  <2> QED BY <2>2, <2>3
<1>5. CASE t \in Every
  BY <1>1, <1>5 DEF Reads, First, Pair, Every
<1>6. CASE t \in Careless
  <2>1. r \subseteq 0..4
    BY <1>6 DEF Reads, First, Pair, Every, Careless
  <2> SUFFICES ASSUME NEW x \in r, x \notin fresh PROVE x \in 1..4
    BY <1>6
  <2>2. x \in 0..4 /\ x # 0
    BY <1>2, <2>1
  <2> QED BY <2>2
<1>7. CASE t \notin First \cup Pair \cup Every \cup Careless
  BY <1>7 DEF Reads, Careless
<1> QED BY <1>3, <1>4, <1>5, <1>6, <1>7

LEMMA ReadsNone == ASSUME NEW t, t \notin Wanting PROVE Reads(t) = {{}}
BY DEF Wanting, Reads, Careless

LEMMA Reads52 == ASSUME NEW t \in Vt52Cases, NEW r \in Reads(t) PROVE r \subseteq {0, 1}
BY DEF Vt52Cases, Reads, First, Pair, Every

\* Which cases may come where, as the tables say.
Said(t) ==
  /\ ansi_level = 0 => t \in Vt52Cases
  /\ ansi_level # 0 => t \notin Only52
  /\ ansi_level # 0 /\ t \in Wanting => InSequence
  /\ t \in Wanting /\ parsestate = "csi_quo_table" => t \in Quoted

LEMMA LookedSaid == ASSUME LevelInv, NEW c \in 0..255 PROVE Said(Looked(c))
<1> DEFINE b == IF c1_printable /\ c \in 128..159 THEN 160 ELSE c
           t == Tables[parsestate][b]
<1>1. b \in 0..255
  OBVIOUS
<1>2. Looked(c) = IF c1_printable /\ c \in 128..159 /\ t = "ESC_SP_STATE" THEN "ESC_IGNORE"
                  ELSE t
  BY DEF Looked
<1>3. "ESC_IGNORE" \notin Wanting
  BY DEF Wanting, First, Pair, Every, Careless
<1> HIDE DEF b
<1>4. parsestate \in Bare => t \notin Wanting
  BY <1>1, BareSaid
<1>5. parsestate = "csi_quo_table" => t \notin Wanting \ Quoted
  BY <1>1, QuoteSaid
<1> HIDE DEF t
<1>6. ansi_level # 0 => parsestate \in Bare \/ InSequence
  BY DEF LevelInv, Bare, InSequence, Sequences, Tables, Vt52Tables
<1>7. /\ ansi_level = 0 => Looked(c) \in Vt52Cases
      /\ ansi_level # 0 => Looked(c) \notin Only52
  BY LookedCases DEF LevelInv
<1>8. Looked(c) \in Wanting => Looked(c) = t
  BY <1>2, <1>3
<1> QED BY <1>4, <1>5, <1>6, <1>7, <1>8 DEF Said

\* A step that leaves the parameters alone.
LEMMA ReadKept ==
  ASSUME ReadInv, UNCHANGED params, ansi_level' = 0 => ansi_level = 0, InSequence' => InSequence,
         read' \ (fresh \cup zeroed) \subseteq (IF nextstate' \in Careless THEN 1..4 ELSE {})
  PROVE  ReadInv' /\ ReadsTrue
BY DEF ReadInv, ReadsTrue

LEMMA NotSequence ==
  ASSUME parsestate' \in {"ansi_table", "vt52_table", "vt52_esc_table", "vt52_ignore_table",
                          "sos_table", "esc_table"}
  PROVE  ~InSequence'
BY DEF InSequence, Sequences

\* A function that ends a sequence.
LEMMA ReadEnds ==
  ASSUME ReadInv, LevelInv, ~vt52_cup, NEW t, Said(t), nextstate' = t, read' \in Reads(t),
         UNCHANGED params, ansi_level' = 0 => ansi_level = 0,
         parsestate' \in {"ansi_table", "vt52_table"}
  PROVE  ReadInv' /\ ReadsTrue
<1>1. CASE ansi_level = 0
  <2>1. read' \subseteq {0, 1} /\ {0, 1} \subseteq zeroed
    BY <1>1, Reads52 DEF Said, ReadInv
  <2> QED BY <2>1, ReadKept, NotSequence
<1>2. CASE ansi_level # 0 /\ t \in Wanting
  <2>1. read' \ fresh \subseteq (IF t \in Careless THEN 1..4 ELSE {})
    BY <1>2, ReadsFresh DEF Said
  <2> QED BY <2>1, ReadKept, NotSequence
<1>3. CASE t \notin Wanting
  <2>1. read' = {}
    BY <1>3, ReadsNone
  <2> QED BY <2>1, ReadKept, NotSequence
<1> QED BY <1>1, <1>2, <1>3

LEMMA ReadSettled ==
  ASSUME ReadInv, LevelInv, ~vt52_cup, NEW t, Settled(t), Said(t), nextstate' = t
  PROVE  ReadInv' /\ ReadsTrue
<1>0. /\ ansi_level # 0 => parsestate \notin Vt52Tables
      /\ groundtable \in {"ansi_table", "vt52_table"}
      /\ ansi_level = 0 => ~InSequence
  BY DEF LevelInv, InSequence, Sequences, Vt52Tables
<1>1. CASE Stay(t)
  BY <1>1, ReadKept DEF Stay, InSequence
<1>2. CASE ShiftInOut(t)
  BY <1>2, ReadKept DEF ShiftInOut, InSequence
<1>3. CASE Enter(t)
  <2>1. InSequence' => t \in Wanting /\ ansi_level # 0
    <3>1. parsestate' \in Sequences \cup {"csi_quo_table"}
            => t \in {"DEC_STATE", "DEC2_STATE", "DEC3_STATE", "CSI_QUOTE_STATE"}
      BY <1>3 DEF Enter, Entry, Sequences
    <3> QED BY <3>1 DEF InSequence, Wanting, Said, Vt52Cases
  <2>2. InSequence' => InSequence
    BY <2>1 DEF Said
  <2> QED BY <1>3, <2>2, ReadKept DEF Enter
<1>4. CASE Escape(t)
  <2>1. ~InSequence'
    BY <1>4, NotSequence DEF Escape
  <2>2. fresh' = {} /\ read' = {} /\ UNCHANGED <<level, nparam, zeroed, vt52_cup>>
    BY <1>4 DEF Escape
  <2> QED BY <2>1, <2>2 DEF ReadInv, ReadsTrue
<1>5. CASE ControlSequence(t)
  <2>1. ansi_level # 0
    BY <1>5 DEF ControlSequence, Said, Vt52Cases
  <2>2. /\ nparam' = 1 /\ fresh' = {0} /\ zeroed' = zeroed \ {0} /\ read' = {}
        /\ UNCHANGED <<level, vt52_cup>>
    BY <1>5 DEF ControlSequence
  <2> QED BY <2>1, <2>2, BoundAssumption DEF ReadInv, ReadsTrue
<1>6. CASE DigitOrSemi(t)
  <2>1. t \in Wanting \ Quoted /\ t \notin Vt52Cases
    BY <1>6 DEF DigitOrSemi, Wanting, Quoted, Vt52Cases
  <2>2. ansi_level # 0 /\ InSequence
    BY <2>1 DEF Said
  <2>3. nparam \in 1..NPARAM /\ 0 .. nparam - 1 \subseteq fresh
    BY <2>2 DEF ReadInv
  <2>4. PICK n \in 0..NPARAM : fresh' = fresh \cup {n} /\ zeroed' = zeroed \ {n}
    <3>1. nparam \in 0..NPARAM /\ nparam - 1 \in 0..NPARAM
      BY <2>3, BoundAssumption
    <3> QED BY <1>6, <3>1 DEF DigitOrSemi
  <2>5. nparam' \in 1..NPARAM /\ 0 .. nparam' - 1 \subseteq fresh'
    <3>1. CASE nparam' = nparam + 1 /\ nparam < NPARAM /\ fresh' = fresh \cup {nparam}
      <4>1. \A i \in 0..nparam : i \in 0 .. nparam - 1 \/ i = nparam
        BY <2>3, BoundAssumption
      <4> QED BY <2>3, <3>1, <4>1, BoundAssumption
    <3>2. CASE nparam' = nparam
      BY <2>3, <2>4, <3>2
    <3> QED BY <1>6, <3>1, <3>2 DEF DigitOrSemi
  <2>6. read' = {} /\ UNCHANGED <<level, vt52_cup>>
    BY <1>6 DEF DigitOrSemi
  <2>7. fresh' \subseteq 0..NPARAM /\ zeroed' \subseteq 0..NPARAM
    BY <2>4 DEF ReadInv
  <2>8. nparam' \in 0..NPARAM /\ nparam' >= 1
    BY <2>5, BoundAssumption
  <2>9. ReadInv'
    BY <2>2, <2>5, <2>6, <2>7, <2>8 DEF ReadInv
  <2> QED BY <2>6, <2>9 DEF ReadsTrue
<1>7. CASE VT52_CUP(t)
  <2>1. ansi_level = 0
    BY <1>7 DEF VT52_CUP, Said, Only52
  <2>2. /\ vt52_cup' = TRUE /\ nparam' = 0 /\ read' = {}
        /\ UNCHANGED <<parsestate, level, fresh, zeroed>>
    BY <1>7 DEF VT52_CUP
  <2>3. ~InSequence'
    BY <1>0, <2>1, <2>2 DEF InSequence
  <2> QED BY <2>1, <2>2, <2>3, BoundAssumption DEF ReadInv, ReadsTrue
<1>8. CASE StartString(t)
  BY <1>8, ReadKept, NotSequence DEF StartString
<1>9. CASE BELL(t)
  <2>1. /\ UNCHANGED <<params, ansi_level>> /\ read' = {}
        /\ parsestate' \in {parsestate, groundtable}
    BY <1>9 DEF BELL, Ground
  <2>2. InSequence' => InSequence
    BY <1>0, <2>1, NotSequence DEF InSequence
  <2> QED BY <2>1, <2>2, ReadKept
<1>10. CASE ST(t)
  <2>1. /\ UNCHANGED <<params, ansi_level>> /\ read' = {}
        /\ parsestate' \in {parsestate, groundtable}
    BY <1>10 DEF ST, Ground
  <2>2. InSequence' => InSequence
    BY <1>0, <2>1, NotSequence DEF InSequence
  <2> QED BY <2>1, <2>2, ReadKept
<1>11. CASE Function(t)
  BY <1>0, <1>11, ReadEnds DEF Function, Ground
<1>12. CASE DECID(t)
  <2>1. parsestate' = groundtable /\ UNCHANGED <<level, nparam, vt52_cup>>
    BY <1>12 DEF DECID, Ground
  <2>2. ~InSequence'
    BY <1>0, <2>1, NotSequence
  <2>3. CASE ansi_level = 0
    BY <1>12, <2>1, <2>2, <2>3, ReadKept DEF DECID
  <2>4. CASE ansi_level # 0
    <3>1. read' = {0} /\ fresh' = fresh \cup {0} /\ zeroed' = zeroed \ {0}
      BY <1>12, <2>4 DEF DECID
    <3> QED BY <2>1, <2>2, <2>4, <3>1, BoundAssumption DEF ReadInv, ReadsTrue
  <2> QED BY <2>3, <2>4
<1>13. CASE SingleShift(t)
  BY <1>0, <1>13, ReadKept, NotSequence DEF SingleShift, Ground
<1>14. CASE LockingShift(t)
  BY <1>0, <1>14, ReadKept, NotSequence DEF LockingShift, Ground
<1>15. CASE SaveOrRestore(t)
  BY <1>0, <1>15, ReadEnds DEF SaveOrRestore, Ground
<1>16. CASE ANSI_LEVEL(t)
  <2>1. /\ UNCHANGED params /\ read' = {}
        /\ ansi_level' = 0 => ansi_level = 0
        /\ parsestate' \in {"ansi_table", "vt52_table"}
    BY <1>0, <1>16 DEF ANSI_LEVEL
  <2> QED BY <2>1, ReadKept, NotSequence
<1>17. CASE DECSCL(t)
  <2>1. t \in Wanting /\ t \in Careless /\ t \notin Vt52Cases
    BY <1>17 DEF DECSCL, Wanting, Careless, Vt52Cases
  <2>2. InSequence /\ ansi_level # 0
    BY <2>1 DEF Said
  <2>3. 0 \in fresh
    BY <2>2 DEF ReadInv
  <2>4. /\ UNCHANGED params /\ read' \subseteq {0, 1}
        /\ parsestate' = groundtable
    BY <1>17 DEF DECSCL
  <2>5. read' \ (fresh \cup zeroed) \subseteq 1..4
    <3> SUFFICES ASSUME NEW x \in read', x \notin fresh PROVE x \in 1..4
      OBVIOUS
    <3>1. x = 1
      BY <2>3, <2>4
    <3> QED BY <3>1
  <2>6. ansi_level' = 0 => ansi_level = 0
    BY <1>17 DEF DECSCL
  <2> QED BY <1>0, <2>1, <2>4, <2>5, <2>6, ReadKept, NotSequence
<1>18. CASE DECSET(t)
  <2>1. /\ UNCHANGED params /\ read' \in Reads(t) /\ parsestate' = groundtable
        /\ ansi_level' = 0 => ansi_level = 0
    BY <1>18 DEF DECSET
  <2> QED BY <1>0, <2>1, ReadEnds
<1>19. CASE DECRST(t)
  <2>1. t \in Every /\ t \in Wanting /\ t \notin Vt52Cases /\ t \notin Careless
    BY <1>19 DEF DECRST, Every, Wanting, Careless, Vt52Cases
  <2>2. InSequence /\ ansi_level # 0
    BY <2>1 DEF Said
  <2>3. read' \subseteq fresh
    <3>1. read' \in Reads(t)
      BY <1>19 DEF DECRST
    <3> QED BY <2>1, <2>2, <3>1, ReadsFresh
  <2>4. /\ UNCHANGED <<nparam, fresh, vt52_cup>>
        /\ \/ zeroed' = zeroed \cup {0, 1}
           \/ zeroed' = zeroed /\ ansi_level' = ansi_level
        /\ parsestate' \in {"ansi_table", "vt52_table"}
    BY <1>0, <1>19 DEF DECRST
  <2>5. ~InSequence'
    BY <2>4, NotSequence
  <2>6. ReadInv'
    <3>1. zeroed' \subseteq 0..NPARAM
      <4>1. {0, 1} \subseteq 0..NPARAM
        BY BoundAssumption
      <4>2. zeroed \subseteq 0..NPARAM
        BY DEF ReadInv
      <4> QED BY <2>4, <4>1, <4>2, Zenon
    <3>2. ansi_level' = 0 => {0, 1} \subseteq zeroed'
      BY <2>2, <2>4
    <3> QED BY <2>4, <2>5, <3>1, <3>2 DEF ReadInv
  <2>7. ReadsTrue
    BY <2>3, <2>4 DEF ReadsTrue
  <2> QED BY <2>6, <2>7
<1> QED
  BY <1>1, <1>2, <1>3, <1>4, <1>5, <1>6, <1>7, <1>8, <1>9, <1>10, <1>11, <1>12, <1>13, <1>14,
     <1>15, <1>16, <1>17, <1>18, <1>19 DEF Settled

LEMMA ReadReset ==
  ASSUME ReadInv, LevelInv, VTReset
  PROVE  ReadInv' /\ ReadsTrue
<1>1. UNCHANGED params /\ UNCHANGED ansi_level /\ read' = {}
      /\ parsestate' \in {"ansi_table", "vt52_table"}
  BY DEF VTReset
<1> QED BY <1>1, ReadKept, NotSequence

LEMMA ReadNext == ReadInv /\ LevelInv /\ ParserNext => ReadInv' /\ ReadsTrue
<1> SUFFICES ASSUME ReadInv, LevelInv, ParserNext PROVE ReadInv' /\ ReadsTrue
  OBVIOUS
<1>1. CASE CupByte
  <2>1. /\ ansi_level = 0 /\ ansi_level' = 0 /\ ~InSequence /\ vt52_cup
        /\ nparam' = nparam + 1 /\ nparam <= 1 /\ nparam' \in 0..NPARAM
    BY <1>1, BoundAssumption DEF CupByte, ReadInv, LevelInv, InSequence, Sequences, Vt52Tables
  <2>2. CASE nparam + 1 < 2
    <3>1. /\ read' = {} /\ fresh' = fresh \cup {nparam} /\ zeroed' = zeroed \ {nparam}
          /\ UNCHANGED <<parsestate, vt52_cup>>
      BY <1>1, <2>2 DEF CupByte
    <3> QED BY <2>1, <2>2, <3>1 DEF ReadInv, ReadsTrue, InSequence
  <2>3. CASE ~(nparam + 1 < 2)
    <3>1. /\ read' = {0, 1} /\ fresh' = fresh \cup {nparam} /\ zeroed' = zeroed \cup {0, 1}
          /\ vt52_cup' = FALSE /\ parsestate' = "vt52_table"
      BY <1>1, <2>3 DEF CupByte
    <3>2. {0, 1, nparam} \subseteq 0..NPARAM
      BY <2>1, BoundAssumption DEF ReadInv
    <3> QED BY <2>1, <3>1, <3>2, NotSequence DEF ReadInv, ReadsTrue
  <2> QED BY <2>2, <2>3
<1>2. CASE MenuReset
  BY <1>2, ReadReset DEF MenuReset
<1>3. ASSUME NEW c \in Byte, Received(c) PROVE ReadInv' /\ ReadsTrue
  <2>1. Said(Looked(c)) /\ ~vt52_cup
    BY <1>3, LookedSaid, ByteAssumption DEF Received
  <2>2. CASE Graphic(c)
    BY <2>2, ReadKept DEF Graphic, InSequence
  <2>3. CASE nextstate' = Looked(c) /\ Settled(Looked(c))
    BY <2>1, <2>3, ReadSettled
  <2>4. CASE Reset(Looked(c))
    BY <2>4, ReadReset DEF Reset
  <2> QED BY <1>3, <2>2, <2>3, <2>4 DEF Received
<1> QED BY <1>1, <1>2, <1>3 DEF ParserNext

-----------------------------------------------------------------------------
(* The types that the invariants above leave out.                          *)

RestInv ==
  /\ ansi_level \in 0..9 /\ c1_printable \in BOOLEAN
  /\ string_mode \in Starts \cup {"none"}
  /\ Len(print_area) < MaxText

LEMMA RestSettled ==
  ASSUME RestInv, NEW t, Settled(t)
  PROVE  ansi_level' \in 0..9 /\ string_mode' \in Starts \cup {"none"}
<1>1. Kept[1] \in Starts \cup {"none"} /\ Kept = <<Kept[1], Kept[2], Kept[3], Kept[4]>>
  BY DEF Kept, RestInv
<1>2. CASE StartString(t)
  BY <1>2 DEF StartString, Strings, RestInv
<1>3. CASE BELL(t)
  <2>1. string_mode' = Kept[1]
    BY <1>1, <1>3 DEF BELL, KeepString, Strings
  <2>2. ansi_level' = ansi_level
    BY <1>3 DEF BELL, Ground
  <2> QED BY <1>1, <2>1, <2>2 DEF RestInv
<1>4. CASE ST(t)
  <2>1. string_mode' = Kept[1]
    BY <1>1, <1>4 DEF ST, KeepString, Strings
  <2>2. ansi_level' = ansi_level
    BY <1>4 DEF ST, Ground
  <2> QED BY <1>1, <2>1, <2>2 DEF RestInv
<1>5. CASE ~StartString(t) /\ ~BELL(t) /\ ~ST(t)
  <2>1. KeepString
    BY <1>5 DEF Settled, Stay, ShiftInOut, Enter, Escape, ControlSequence, DigitOrSemi, VT52_CUP,
         Function, DECID, SingleShift, LockingShift, SaveOrRestore, ANSI_LEVEL, DECSCL, DECSET,
         DECRST
  <2>2. ansi_level' \in {ansi_level, 0, 1, 2, 3}
    BY <1>5 DEF Settled, Stay, ShiftInOut, Enter, Escape, ControlSequence, DigitOrSemi, VT52_CUP,
         Function, DECID, SingleShift, LockingShift, SaveOrRestore, ANSI_LEVEL, DECSCL, DECSET,
         DECRST, Ground
  <2> QED BY <1>1, <2>1, <2>2 DEF KeepString, Strings, RestInv
<1> QED BY <1>2, <1>3, <1>4, <1>5

LEMMA RestNext == RestInv /\ ParserNext => RestInv'
<1> SUFFICES ASSUME RestInv, ParserNext PROVE RestInv'
  OBVIOUS
<1>1. CASE CupByte
  BY <1>1 DEF CupByte, RestInv
<1>2. CASE MenuReset
  BY <1>2 DEF MenuReset, VTReset, RestInv
<1>3. ASSUME NEW c \in Byte, Received(c) PROVE RestInv'
  <2>1. Kept[1] \in Starts \cup {"none"}
    BY DEF Kept, RestInv
  <2>2. Len(<< >>) < MaxText
    BY BoundAssumption
  <2>3. UNCHANGED c1_printable
    BY <1>3 DEF Received
  <2>4. CASE Graphic(c)
    BY <2>1, <2>2, <2>3, <2>4 DEF Graphic, KeepString, Strings, RestInv
  <2>5. CASE print_area' \in {print_area, << >>} /\ Settled(Looked(c))
    BY <2>2, <2>3, <2>5, RestSettled DEF RestInv
  <2>6. CASE print_area' \in {print_area, << >>} /\ Reset(Looked(c))
    BY <2>2, <2>3, <2>6 DEF Reset, VTReset, Strings, Kept, RestInv
  <2> QED BY <1>3, <2>4, <2>5, <2>6 DEF Received
<1> QED BY <1>1, <1>2, <1>3 DEF ParserNext

LEMMA TypeImplied ==
  LevelInv /\ StringInv /\ TextInv /\ ReadInv /\ RestInv => ParserTypeOK
<1> SUFFICES ASSUME LevelInv, StringInv, TextInv, ReadInv, RestInv PROVE ParserTypeOK
  OBVIOUS
<1>1. {groundtable, parsestate} \subseteq DOMAIN Tables
  BY DEF LevelInv, Tables
<1>2. parsestate \in Sequences => nparam >= 1 /\ 0 .. nparam - 1 \subseteq fresh
  BY DEF ReadInv, InSequence
<1> QED
  BY <1>1, <1>2 DEF ParserTypeOK, StringInv, TextInv, ReadInv, RestInv

\* For every terminal and after any bytes, a function reads only parameters
\* that its own sequence has set, or that are 0 for a VT52 (param,
\* charproc.c:1093); and every variable has its type.
THEOREM ReadsOnlyOwn == ParserSpec => ReadsOwn
<1>1. ParserInit => LevelInv /\ StringInv /\ TextInv /\ ReadInv /\ RestInv
  <2> SUFFICES ASSUME ParserInit PROVE LevelInv /\ StringInv /\ TextInv /\ ReadInv /\ RestInv
    OBVIOUS
  <2>0. groundtable \in {"ansi_table", "vt52_table"} /\ parsestate = groundtable
    BY DEF ParserInit
  <2>1. StringInv /\ TextInv
    <3>1. string_used = 0 /\ own = 0 /\ joined = FALSE
      BY DEF ParserInit
    <3>2. StringInv
      BY <2>0, <3>1 DEF StringInv
    <3> QED BY <3>2 DEF ParserInit, TextInv
  <2>2. ~InSequence
    BY <2>0 DEF InSequence, Sequences
  <2>3. nparam = 0 /\ fresh = {} /\ zeroed = 0 .. NPARAM - 1 /\ vt52_cup = FALSE
    BY DEF ParserInit
  <2>4. ReadInv
    <3>1. 0 .. NPARAM - 1 \subseteq 0..NPARAM /\ {0, 1} \subseteq 0 .. NPARAM - 1
      BY BoundAssumption
    <3> QED BY <2>2, <2>3, <3>1, BoundAssumption DEF ReadInv
  <2>5. RestInv
    BY BoundAssumption DEF ParserInit, RestInv
  <2> QED BY <2>1, <2>4, <2>5, LevelInit
<1>2. LevelInv /\ [ParserNext]_parser => LevelInv'
  BY LevelNext
<1>3. StringInv /\ [ParserNext]_parser => StringInv'
  BY StringNext DEF StringInv
<1>4. TextInv /\ [ParserNext]_parser => TextInv'
  BY TextNext DEF TextInv, SetOf
<1>5. LevelInv /\ ReadInv /\ [ParserNext]_parser => ReadInv'
  <2>1. ReadInv /\ UNCHANGED parser => ReadInv'
    BY DEF ReadInv, InSequence
  <2> QED BY <2>1, ReadNext
<1>6. RestInv /\ [ParserNext]_parser => RestInv'
  BY RestNext DEF RestInv
<1>7. LevelInv /\ ReadInv /\ [ParserNext]_parser
        => [read' \ (fresh' \cup zeroed')
              \subseteq (IF nextstate' \in Careless THEN 1..4 ELSE {})]_parser
  BY ReadNext DEF ReadsTrue
<1> QED
  BY <1>1, <1>2, <1>3, <1>4, <1>5, <1>6, <1>7, TypeImplied, PTL DEF ParserSpec, ReadsOwn
=============================================================================
