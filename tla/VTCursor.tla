------------------------------ MODULE VTCursor ------------------------------
(***************************************************************************)
(* The cursor of the VT100 emulator of xterm_177_motif: where it is, where *)
(* the scrolling region lets it go, what DECSC and the alternate screen    *)
(* remember of it, and what a resize of the window does to all of that     *)
(* (cursor.c, tabs.c, ScreenResize of screen.c and the cases of VTparse in *)
(* charproc.c that call them).  One action per control function.  What the *)
(* lines contain is VTScroll's subject.  Lines are of single width and the *)
(* resource titeInhibit is off.                                            *)
(***************************************************************************)
EXTENDS Integers, FiniteSets

CONSTANTS
  Sizes,      \* the sizes a window is given: rows and columns of characters
  MaxParam,   \* the largest numeric parameter of a control sequence
  MAX_TABS,   \* the columns that can hold a tab stop are 0 .. MAX_TABS - 1
  MaxSaves,   \* bound of the model: how often the cursor is saved
  initflags   \* the flags the resources give

Flag == {"ORIGIN", "WRAPAROUND", "REVERSEWRAP"}
DECSC_FLAGS == {"ORIGIN", "WRAPAROUND"}

\* A window is never wider than the tab stops reach: the code does not check.
ASSUME SizeAssumption ==
  /\ Sizes \subseteq (Nat \ {0}) \X (Nat \ {0})
  /\ MaxParam \in Nat \ {0} /\ MaxSaves \in Nat /\ MAX_TABS \in Nat
  /\ \A s \in Sizes : s[2] <= MAX_TABS
ASSUME FlagAssumption == initflags \in SUBSET (Flag \ {"ORIGIN"})

VARIABLES
  max_row, max_col,    \* the last row and column of the screen
  cur_row, cur_col,    \* the cursor
  do_wrap,             \* the next character goes to the next line
  top_marg, bot_marg,  \* the scrolling region
  flags,
  alternate,           \* the alternate screen is shown
  sc,                  \* the saved cursor of the main and of the alternate screen
  tabs,                \* the tab stops
  saves                \* bound of the model: times sc was written

size == <<max_row, max_col>>
cursor == <<cur_row, cur_col, do_wrap>>
region == <<top_marg, bot_marg>>
saved == <<sc, saves>>
vars == <<size, cursor, region, flags, alternate, saved, tabs>>

Smaller(a, b) == IF a <= b THEN a ELSE b
Larger(a, b) == IF a <= b THEN b ELSE a

Param == 1..MaxParam
SavedCursor == [row : Nat, col : Nat, flags : SUBSET DECSC_FLAGS]
TabReset == {c \in 0..(MAX_TABS - 1) : c % 8 = 0}

-----------------------------------------------------------------------------
\* Where the operations of cursor.c take a row.

\* Mutant: off by one at the bottom.
SetRowPast(row, fl, top, bot) ==
  Smaller(Larger(row + (IF "ORIGIN" \in fl THEN top ELSE 0), 0),
          IF "ORIGIN" \in fl THEN bot ELSE max_row + 1)
\* The row CursorSet goes to, in a screen whose region is top .. bot.
SetRow(row, fl, top, bot) ==
  LET origin == "ORIGIN" \in fl
      r      == Larger(row + (IF origin THEN top ELSE 0), 0)
  IN  Smaller(r, IF origin THEN bot ELSE max_row)

DownRow(r, n) == Smaller(r + n, IF r > bot_marg THEN max_row ELSE bot_marg)
\* Mutant: the top margin does not stop the cursor.
UpRowFree(r, n) == Larger(r - n, 0)
UpRow(r, n) == Larger(r - n, IF r < top_marg THEN 0 ELSE top_marg)

IndexRow(r, n) ==
  IF r > bot_marg \/ r + n <= bot_marg THEN DownRow(r, n)
                                       ELSE DownRow(r, bot_marg - r)
RevIndexRow(r, n) ==
  IF r < top_marg \/ r - n >= top_marg THEN UpRow(r, n)
                                       ELSE UpRow(r, r - top_marg)

\* The number of the character cell reverse wraparound goes to when it counts
\* n cells back from the cursor over the start of the line, and of the screen.
BackCell(n) ==
  LET width == max_col + 1
      cells == width * (max_row + 1)
      i     == width * cur_row + cur_col - n
  IN  IF i < 0 THEN i + ((-i) \div cells + 1) * cells ELSE i

\* TabNext and TabPrev: the nearest stop, else the last column of the array.
TabNext(col) ==
  LET stops == {t \in tabs : t > col}
  IN  IF stops = {} THEN MAX_TABS - 1
      ELSE CHOOSE t \in stops : \A u \in stops : t <= u
TabPrev(col) ==
  LET stops == {t \in tabs : t < col}
  IN  IF stops = {} THEN 0 ELSE CHOOSE t \in stops : \A u \in stops : t >= u

-----------------------------------------------------------------------------
Init ==
  /\ \E s \in Sizes : max_row = s[1] - 1 /\ max_col = s[2] - 1
  /\ cur_row = 0 /\ cur_col = 0 /\ do_wrap = FALSE
  /\ top_marg = 0 /\ bot_marg = max_row
  /\ flags = initflags /\ alternate = FALSE
  /\ sc = [a \in BOOLEAN |-> [row |-> 0, col |-> 0,
             flags |-> IF a THEN {} ELSE initflags \cap DECSC_FLAGS]]
  /\ tabs = TabReset /\ saves = 0

\* The tails of the operations.
CursorSet(row, col, fl, top, bot) ==
  /\ cur_row' = SetRow(row, fl, top, bot)
  /\ cur_col' = Smaller(Larger(col, 0), max_col)
  /\ do_wrap' = FALSE

MoveTo(row, col) == cur_row' = row /\ cur_col' = col /\ do_wrap' = FALSE

Still == UNCHANGED <<size, region, flags, alternate, saved, tabs>>

\* Mutant: one saved cursor for both screens.
SaveMain(row, col, fl) ==
  /\ saves < MaxSaves /\ saves' = saves + 1
  /\ sc' = [sc EXCEPT ![FALSE] =
              [row |-> row, col |-> col, flags |-> fl \cap DECSC_FLAGS]]
\* The saved cursor of the screen that is shown; ORIGIN and WRAPAROUND are the
\* only flags that DECRC looks at.
Save(row, col, fl) ==
  /\ saves < MaxSaves /\ saves' = saves + 1
  /\ sc' = [sc EXCEPT ![alternate] =
              [row |-> row, col |-> col, flags |-> fl \cap DECSC_FLAGS]]

\* Mutant: the saved row is taken for a row of the region.
RestoreTwice(s) ==
  /\ flags' = (flags \ DECSC_FLAGS) \cup s.flags
  /\ CursorSet(s.row, s.col, flags', top_marg, bot_marg)
\* CursorRestore from s, on the screen that is shown from now on.
Restore(s) ==
  /\ flags' = (flags \ DECSC_FLAGS) \cup s.flags
  /\ CursorSet(IF "ORIGIN" \in s.flags THEN s.row - top_marg ELSE s.row,
               s.col, flags', top_marg, bot_marg)

-----------------------------------------------------------------------------
\* Cursor movement.

CUU(n) == MoveTo(UpRow(cur_row, n), cur_col) /\ Still
CUD(n) == MoveTo(DownRow(cur_row, n), cur_col) /\ Still
CUF(n) == MoveTo(cur_row, Smaller(cur_col + n, max_col)) /\ Still
CNL(n) == MoveTo(DownRow(cur_row, n), 0) /\ Still
CPL(n) == MoveTo(UpRow(cur_row, n), 0) /\ Still

\* CUB and, with n = 1, the backspace: CursorBack.
ReverseWraps == {"REVERSEWRAP", "WRAPAROUND"} \subseteq flags
Back(n) == IF ReverseWraps /\ do_wrap THEN n - 1 ELSE n
CUB(n) ==
  /\ IF cur_col - Back(n) >= 0 THEN MoveTo(cur_row, cur_col - Back(n))
     ELSE IF ReverseWraps
          THEN MoveTo(BackCell(Back(n)) \div (max_col + 1),
                      BackCell(Back(n)) % (max_col + 1))
          ELSE MoveTo(cur_row, 0)
  /\ Still

\* CUP, HVP and the cursor addressing of the VT52; VPA and HPA, which leave the
\* other coordinate to CursorSet; HP_BUGGY_LL.
CUP(row, col) ==
  CursorSet(row - 1, col - 1, flags, top_marg, bot_marg) /\ Still
VPA(row) == CursorSet(row - 1, cur_col, flags, top_marg, bot_marg) /\ Still
HPA(col) == CursorSet(cur_row, col - 1, flags, top_marg, bot_marg) /\ Still
LowerLeft == CursorSet(max_row, 0, flags, top_marg, bot_marg) /\ Still

CarriageReturn == MoveTo(cur_row, 0) /\ Still

\* A line feed, with a carriage return in LINEFEED mode (mode 20 may be set at
\* any time); NEL is the one with it, IND the one without.
IND == MoveTo(IndexRow(cur_row, 1), cur_col) /\ Still
NEL == MoveTo(IndexRow(cur_row, 1), 0) /\ Still
VMOT == IND \/ NEL
RI == MoveTo(RevIndexRow(cur_row, 1), cur_col) /\ Still

\* IL and DL return at once outside the region.
LineOp == /\ cur_row >= top_marg /\ cur_row <= bot_marg
          /\ MoveTo(cur_row, cur_col) /\ Still
\* ED, EL, ECH, ICH, DCH; SU when it clears the screen (SU and SD leave the
\* cursor alone otherwise).
Erase == MoveTo(cur_row, cur_col) /\ Still

\* One pass of the loop of dotext: n characters that fit in the line.  REP and
\* longer texts are several passes.
LastColumn == cur_col >= max_col
Wraps == LastColumn /\ do_wrap /\ "WRAPAROUND" \in flags
Text(n) ==
  LET start == IF Wraps THEN 0 ELSE cur_col
  IN  /\ n = 1 \/ start + n <= max_col + 1
      /\ cur_row' = IF Wraps THEN IndexRow(cur_row, 1) ELSE cur_row
      /\ cur_col' = Smaller(start + n, max_col)
      /\ do_wrap' = (cur_col' < start + n)
      /\ Still

\* One pass of the loop of CHT, and TAB.  curses is the resource, or mode 41.
TAB(curses) ==
  LET wraps == curses /\ do_wrap /\ "WRAPAROUND" \in flags
  IN  /\ cur_row' = IF wraps THEN IndexRow(cur_row, 1) ELSE cur_row
      /\ cur_col' = Smaller(TabNext(IF wraps THEN 0 ELSE cur_col), max_col)
      /\ do_wrap' = (do_wrap /\ ~wraps)
      /\ Still
\* One pass of the loop of CBT: do_wrap stays as it is.
CBT == /\ cur_col' = TabPrev(cur_col)
       /\ UNCHANGED <<cur_row, do_wrap>> /\ Still

-----------------------------------------------------------------------------
\* Modes, margins, tab stops.

HTS == tabs' = tabs \cup {cur_col}
       /\ UNCHANGED <<size, cursor, region, flags, alternate, saved>>
TBC == tabs' \in {tabs \ {cur_col}, {}}
       /\ UNCHANGED <<size, cursor, region, flags, alternate, saved>>

\* top and bot as the parser left them: bot is 0 when it was not given.
DECSTBM(top, bot) ==
  LET b == IF bot = 0 \/ bot > max_row + 1 THEN max_row + 1 ELSE bot
  IN  /\ b > top
      /\ top_marg' = top - 1 /\ bot_marg' = b - 1
      /\ CursorSet(0, 0, flags, top - 1, b - 1)
      /\ UNCHANGED <<size, flags, alternate, saved, tabs>>

\* HP_MEM_LOCK and HP_MEM_UNLOCK: the bottom margin is not looked at.
MemLock(on) ==
  /\ top_marg' = IF on THEN cur_row ELSE 0
  /\ UNCHANGED <<bot_marg, size, cursor, flags, alternate, saved, tabs>>

DECOM(on) ==
  /\ flags' = IF on THEN flags \cup {"ORIGIN"} ELSE flags \ {"ORIGIN"}
  /\ CursorSet(0, 0, flags', top_marg, bot_marg)
  /\ UNCHANGED <<size, region, alternate, saved, tabs>>

\* DECAWM and mode 45.
WrapMode(f, on) ==
  /\ flags' = IF on THEN flags \cup {f} ELSE flags \ {f}
  /\ UNCHANGED <<size, cursor, region, alternate, saved, tabs>>

-----------------------------------------------------------------------------
\* Saving and restoring; the alternate screen.

DECSC == /\ Save(cur_row, cur_col, flags)
         /\ UNCHANGED <<size, cursor, region, flags, alternate, tabs>>
DECRC == /\ Restore(sc[alternate])
         /\ UNCHANGED <<size, region, alternate, saved, tabs>>

\* Modes 47 and 1047; the latter clears the alternate screen when it leaves it.
ToAlternate == /\ alternate' = TRUE
               /\ UNCHANGED <<size, cursor, region, flags, saved, tabs>>
FromAlternate(clear) ==
  /\ alternate' = FALSE
  /\ do_wrap' = (do_wrap /\ ~(clear /\ alternate))
  /\ UNCHANGED <<cur_row, cur_col, size, region, flags, saved, tabs>>

\* Mode 1049.
EnterAlternate == /\ Save(cur_row, cur_col, flags)
                  /\ alternate' = TRUE /\ do_wrap' = FALSE
                  /\ UNCHANGED <<cur_row, cur_col, size, region, flags, tabs>>
LeaveAlternate == /\ alternate' = FALSE /\ Restore(sc[FALSE])
                  /\ UNCHANGED <<size, region, saved, tabs>>

\* VTReset(TRUE, TRUE) and VTReset(FALSE, FALSE).
RIS ==
  /\ saves < MaxSaves /\ saves' = saves + 1
  /\ top_marg' = 0 /\ bot_marg' = max_row
  /\ alternate' = FALSE /\ flags' = initflags /\ tabs' = TabReset
  /\ CursorSet(0, 0, initflags, 0, max_row)
  /\ sc' = [sc EXCEPT ![FALSE] = [row |-> 0, col |-> 0,
                                  flags |-> initflags \cap DECSC_FLAGS]]
  /\ UNCHANGED size
DECSTR ==
  /\ top_marg' = 0 /\ bot_marg' = max_row
  /\ flags' = initflags \cap {"WRAPAROUND", "REVERSEWRAP"}
  /\ Save(0, 0, flags')
  /\ UNCHANGED <<size, cursor, alternate, tabs>>

-----------------------------------------------------------------------------
\* The window got another size.  With resizeGravity SouthWest the text keeps its
\* distance from the bottom: a larger screen takes back lines that were saved
\* (as many as there are), a smaller one loses lines at the top if the cursor
\* would be below the end.
Shifts(rows, row) ==
  LET delta == rows - (max_row + 1)
  IN  {0} \cup IF delta > 0 THEN 0..delta
               ELSE {- Larger(- delta - (max_row - row), 0)}
ScreenResize(s, row, col, wrap) ==
  /\ s # <<max_row + 1, max_col + 1>>
  /\ max_row' = s[1] - 1 /\ max_col' = s[2] - 1
  /\ top_marg' = 0 /\ bot_marg' = s[1] - 1
  /\ flags' = flags \ {"ORIGIN"}
  /\ \E down \in Shifts(s[1], row) : cur_row' = Smaller(row + down, s[1] - 1)
  /\ cur_col' = Smaller(col, s[2] - 1)
  /\ do_wrap' = wrap
  /\ UNCHANGED <<alternate, saved, tabs>>
VTResize == \E s \in Sizes : ScreenResize(s, cur_row, cur_col, do_wrap)

\* DECCOLM: the screen is cleared and the cursor goes home before the window is
\* asked for; whoever manages the windows may refuse it.
Home == SetRow(0, flags, top_marg, bot_marg)
DECCOLM ==
  \/ CursorSet(0, 0, flags, top_marg, bot_marg) /\ Still
  \/ \E s \in Sizes : ScreenResize(s, Home, 0, FALSE)

-----------------------------------------------------------------------------
Moves ==
  \/ \E n \in Param : CUU(n) \/ CUD(n) \/ CUF(n) \/ CUB(n) \/ CNL(n) \/ CPL(n)
  \/ \E row, col \in Param : CUP(row, col)
  \/ \E n \in Param : VPA(n) \/ HPA(n)
  \/ LowerLeft \/ CarriageReturn \/ VMOT \/ RI \/ LineOp \/ Erase
  \/ \E n \in Param : Text(n)
  \/ \E curses \in BOOLEAN : TAB(curses)
  \/ CBT
Modes ==
  \/ HTS \/ TBC
  \/ \E top \in Param, bot \in 0..MaxParam : DECSTBM(top, bot)
  \/ \E on \in BOOLEAN : MemLock(on) \/ DECOM(on)
  \/ \E f \in {"WRAPAROUND", "REVERSEWRAP"}, on \in BOOLEAN : WrapMode(f, on)
Saving ==
  \/ DECSC \/ DECRC \/ ToAlternate \/ EnterAlternate \/ LeaveAlternate
  \/ \E clear \in BOOLEAN : FromAlternate(clear)
  \/ RIS \/ DECSTR
Resizing == VTResize \/ DECCOLM

Next == Moves \/ Modes \/ Saving \/ Resizing
Spec == Init /\ [][Next]_vars

-----------------------------------------------------------------------------
\* The cursor is an integer cell no further than one row below the screen.
\* That row is CursorBack's: see OnlyBackLeaves.
TypeOK ==
  /\ max_row \in Nat /\ max_col \in Nat
  /\ <<max_row + 1, max_col + 1>> \in Sizes
  /\ cur_row \in 0..(max_row + 1) /\ cur_col \in 0..max_col
  /\ top_marg \in 0..(max_row + 1) /\ bot_marg \in 0..max_row
  /\ do_wrap \in BOOLEAN /\ alternate \in BOOLEAN
  /\ flags \in SUBSET Flag
  /\ sc \in [BOOLEAN -> SavedCursor]
  /\ tabs \in SUBSET (0..(MAX_TABS - 1)) /\ saves \in 0..MaxSaves

\* Whatever the output of the program, whatever was saved on a larger screen and
\* however the window shrinks, the cursor leaves the screen only by counting
\* back over its first cell (cursor.c:121-126).
OnlyBackLeaves ==
  [][cur_row' > max_row' => (\E n \in Param : CUB(n)) \/ cur_row > max_row]_vars

\* The top margin passes the bottom margin only by locking memory with the
\* cursor below the region (charproc.c:1835-1836): neither resizes nor resets
\* nor DECSTBM get them crossed.
OnlyLockCrosses ==
  [][top_marg' > bot_marg' => MemLock(TRUE) \/ top_marg > bot_marg]_vars

InRegion == top_marg <= cur_row /\ cur_row <= bot_marg

\* "Won't leave scrolling region" (cursor.c:149,168,187,210): from a line of the
\* region no vertical movement, line feed, wrapped text or tab gets out of it.
RegionHolds ==
  [][InRegion /\ ~InRegion' =>
       ~ \/ \E n \in Param : CUU(n) \/ CUD(n) \/ CNL(n) \/ CPL(n) \/ Text(n)
         \/ VMOT \/ RI \/ \E curses \in BOOLEAN : TAB(curses)]_vars

\* A full-screen program cannot lose the cursor of the main screen: while the
\* alternate screen is shown nothing writes what was saved for the main screen
\* (cursor.c:248; the soft reset of VTReset too).
MainCursorKept == [][alternate /\ alternate' => sc'[FALSE] = sc[FALSE]]_vars

\* DECRC goes back to the cell that was saved if the screen still has it, also
\* in origin mode with other margins than when it was saved, as long as the
\* region reaches as far down (cursor.c:291-296).
RestoreReturns ==
  [][DECRC =>
      LET s == sc[alternate]
          last == IF "ORIGIN" \in s.flags THEN bot_marg ELSE max_row
      IN  s.row <= last /\ s.col <= max_col
            => cur_row' = s.row /\ cur_col' = s.col]_vars

\* A tab never takes the cursor back in its line, whatever stops are set and
\* however narrow the window has become, unless it wraps (tabs.c:112-157).
TabForward ==
  [][~do_wrap /\ (cur_row' # cur_row \/ cur_col' < cur_col)
      => ~ \E curses \in BOOLEAN : TAB(curses)]_vars

=============================================================================
