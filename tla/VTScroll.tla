------------------------------ MODULE VTScroll ------------------------------
(***************************************************************************)
(* The lines of the VT100 emulator of xterm_177_motif: the buffer, what    *)
(* the window shows of it, and jump scrolling, which scrolls the buffer at *)
(* once and the window later, with several scrolls in one copy (FlushScroll*)
(* of util.c and everything that puts it off or needs it done).  The       *)
(* window has a fixed size.  A line is one value; what writes or erases a  *)
(* part of it gives it another value.  The user may have scrolled back.    *)
(***************************************************************************)
EXTENDS Integers

CONSTANTS
  Line,         \* what a line can contain
  Blank,        \* the line without text
  Garbled,      \* in the window only: some characters of a line and some of another
  max_row,      \* the last row of the screen
  savelines,    \* how many lines above the screen are kept
  Count,        \* the parameters of SU, IL and DL
  Region        \* the margins that DECSTBM sets

ASSUME LineAssumption == Blank \in Line /\ Garbled \notin Line
ASSUME SizeAssumption == max_row \in Nat /\ savelines \in Nat /\ Count \subseteq Nat \ {0}
ASSUME RegionAssumption == Region \subseteq (0..max_row) \X (0..max_row)

VARIABLES
  buf,                  \* the lines; those above row 0 are the saved ones
  win,                  \* what each row of the window shows
  topline,              \* the line in the first row of the window
  savedlines,           \* how far the user may scroll back
  scroll_amt,           \* scrolls that the window has not seen, up or (negative) down
  refresh_amt,          \* rows at the end (start) of the region to draw with them
  cur_row,
  top_marg, bot_marg,   \* the scrolling region
  jumpscroll,           \* scrolls may be put off
  scrollWidget,         \* there is a scrollbar, and the main screen is shown
  spoiled               \* history: the window was left wrong, see Spoils

pending == <<scroll_amt, refresh_amt>>
margins == <<top_marg, bot_marg>>
vars == <<buf, win, topline, savedlines, pending, cur_row, margins, jumpscroll,
          scrollWidget, spoiled>>

Smaller(a, b) == IF a <= b THEN a ELSE b
Larger(a, b) == IF a <= b THEN b ELSE a

Row == 0..max_row
shift == -topline
\* The last line of the buffer that the window shows.
bot == max_row - shift
Height == bot_marg - top_marg + 1
\* Lines that leave a region at the top of the screen are saved.
Saves == scrollWidget /\ top_marg = 0

-----------------------------------------------------------------------------
\* The window: XCopyArea, clearing, drawing over what is there.

Copy(w, first, n, amount) ==
  IF n <= 0 THEN w
  ELSE [r \in Row |-> IF r \notin (first - amount)..(first - amount + n - 1) THEN w[r]
                      ELSE IF r + amount \in Row THEN w[r + amount] ELSE Garbled]

Wipe(w, first, n) == [r \in Row |-> IF r \in first..(first + n - 1) THEN Blank ELSE w[r]]

\* Blanks at the ends of a line are not drawn.
Overlay(old, line) ==
  IF line = Blank \/ old = line THEN old ELSE IF old = Blank THEN line ELSE Garbled

\* ScrnRefresh from b with amt scrolls pending and tl in the first row: in the
\* region it draws what the flush will bring to the right place.
Source(r, amt) == IF r \in top_marg..bot_marg THEN r - amt ELSE r
Refreshed(w, b, first, n, amt, tl) ==
  [r \in Row |-> IF r \in first..(first + n - 1) /\ Source(r, amt) \in Row
                 THEN Overlay(w[r], b[Source(r, amt) + tl]) ELSE w[r]]
Redrawn(w, b, first, n) == Refreshed(Wipe(w, first, n), b, first, n, 0, topline)

\* n rows of the region from line where are opened, the rest moved down by amount.
Beyond(where, n) == Larger(where + n - 1 - bot, 0)
Opened(w, where, last, n, amount) ==
  Wipe(Copy(w, where + shift + n - amount,
            last - where + 1 - n - Larger(last - bot, 0), -amount),
       where + shift, n - Beyond(where, n))

-----------------------------------------------------------------------------
\* FlushScroll: the window after the pending scrolls, with the buffer b, ref rows
\* to draw and a region from top to last.

FlushedUp(b, ref, top, last) ==
  LET end    == max_row - scroll_amt + 1
      still  == last - top - ref + 1
      first  == Smaller(last - ref + 1 + shift, end)
      below  == bot - (last - ref + scroll_amt)
      above  == Larger(top + scroll_amt - 1 - bot, 0)
      from   == top + shift + scroll_amt
  IN  IF scrollWidget /\ top = 0
      THEN Redrawn(Copy(win, scroll_amt, Smaller(still + shift, end), scroll_amt), b, first,
                   IF last > bot THEN Larger(ref - (last - bot), scroll_amt) ELSE ref)
      ELSE IF below > 0
      THEN Redrawn(Copy(win, from, still, scroll_amt), b, first,
                   IF last > bot THEN scroll_amt + below ELSE ref)
      ELSE Redrawn(Copy(win, from, still + below, scroll_amt), b,
                   first + above, scroll_amt - above)

FlushedDown(b, ref, top, last) ==
  Refreshed(Opened(win, top, last, -ref, -scroll_amt), b,
            top + shift, -ref - Beyond(top, -ref), 0, topline)

FlushedWith(b, ref, top, last) ==
  IF scroll_amt > 0 THEN FlushedUp(b, ref, top, last)
  ELSE IF scroll_amt < 0 THEN FlushedDown(b, ref, top, last) ELSE win
Flushed == FlushedWith(buf, refresh_amt, top_marg, bot_marg)

\* savedlines after n more lines have left a region that starts at row top.
CountedOnce(count, top, n) ==
  IF n > 0 /\ scrollWidget /\ top = 0 THEN Smaller(count + 1, savelines) ELSE count
Counted(count, top, n) ==
  IF n > 0 /\ scrollWidget /\ top = 0 THEN Smaller(count + n, savelines) ELSE count
FlushedSaved == Counted(savedlines, top_marg, scroll_amt)

-----------------------------------------------------------------------------
\* The buffer: ScrnDeleteLine (from the saved lines on at the top of the screen)
\* and ScrnInsertLine, in the region from row where on.

Deleted(where, n) ==
  LET from == IF scrollWidget /\ where = 0 THEN -savelines ELSE where
  IN  [r \in DOMAIN buf |-> IF r \in from..(bot_marg - n) THEN buf[r + n]
                            ELSE IF r \in from..bot_marg THEN Blank ELSE buf[r]]
Inserted(where, n) ==
  [r \in DOMAIN buf |-> IF r \in (where + n)..bot_marg THEN buf[r - n]
                        ELSE IF r \in where..bot_marg THEN Blank ELSE buf[r]]
Erased(first, last) == [r \in DOMAIN buf |-> IF r \in first..last THEN Blank ELSE buf[r]]

-----------------------------------------------------------------------------
Init ==
  /\ buf = [r \in (-savelines)..max_row |-> Blank] /\ win = [r \in Row |-> Blank]
  /\ topline = 0 /\ savedlines = 0 /\ scroll_amt = 0 /\ refresh_amt = 0
  /\ cur_row = 0 /\ top_marg = 0 /\ bot_marg = max_row
  /\ jumpscroll \in BOOLEAN /\ scrollWidget \in BOOLEAN /\ spoiled = FALSE

\* A scroll is put off, after those that wait, or after these were flushed.
Postpone(amt, ref) ==
  scroll_amt' = scroll_amt + amt /\ refresh_amt' = refresh_amt + ref
  /\ UNCHANGED <<win, savedlines>>
FlushThen(amt) ==
  /\ win' = Flushed /\ savedlines' = FlushedSaved
  /\ scroll_amt' = amt /\ refresh_amt' = amt
FlushScroll == FlushThen(0)

\* ClearScreen, in a region from top to last.
Cleared(count, top, last) ==
  /\ IF shift > max_row THEN savedlines' = count /\ UNCHANGED <<win, pending>>
     ELSE /\ win' = Wipe(FlushedWith(buf, refresh_amt, top, last), shift, max_row - shift + 1)
          /\ savedlines' = Counted(count, top, scroll_amt)
          /\ scroll_amt' = 0 /\ refresh_amt' = 0
  /\ buf' = Erased(0, max_row)

\* xtermScroll without jump scrolling, less than the whole region.
SmoothUp(n) ==
  LET end    == max_row - n + 1
      first  == Smaller(bot_marg - n + 1 + shift, end)
      hidden == Larger(bot_marg - bot, 0)
      above  == IF Saves \/ hidden = 0 THEN 0 ELSE Larger(top_marg + n - 1 - bot, 0)
      moved  == IF Saves THEN Copy(win, n, Smaller(Height - n + shift, end), n)
                ELSE Copy(win, top_marg + shift + n, Height - n - hidden, n)
  IN  /\ buf' = Deleted(top_marg, n)
      /\ win' = Refreshed(Wipe(moved, first + above, n - above), buf',
                          first + above, Smaller(n - above, shift), 0, topline)
      /\ savedlines' = Counted(savedlines, top_marg, n)
      /\ UNCHANGED <<pending, spoiled>>

\* xtermScroll and RevScroll.
ScrollUp(count) ==
  LET n == Smaller(count, Height)
  IN  \/ /\ jumpscroll
         /\ IF scroll_amt > 0 /\ refresh_amt + n <= Height THEN Postpone(n, n)
                                                           ELSE FlushThen(n)
         /\ buf' = Deleted(top_marg, n) /\ UNCHANGED spoiled
      \/ ~jumpscroll /\ n = Height /\ Cleared(savedlines, top_marg, bot_marg) /\ UNCHANGED spoiled
      \/ ~jumpscroll /\ n < Height /\ SmoothUp(n)
ScrollDown(count) ==
  LET n == Smaller(count, Height)
  IN  /\ IF ~jumpscroll
         THEN win' = Opened(win, top_marg, bot_marg, n, n) /\ UNCHANGED <<savedlines, pending>>
         ELSE IF scroll_amt < 0 /\ - refresh_amt + n <= Height THEN Postpone(-n, -n)
                                                               ELSE FlushThen(-n)
      /\ buf' = Inserted(top_marg, n) /\ UNCHANGED spoiled

\* The step leaves the window so that no flush makes it show the buffer.  The code
\* has eight such places; each names its condition here.
Spoils(condition) == spoiled' = (spoiled \/ condition)

Fixed == UNCHANGED <<topline, margins, jumpscroll, scrollWidget>>
Quiet == UNCHANGED <<buf, win, savedlines, pending, spoiled>>

\* Index and reverse index: a line feed, wrapped text, RI.
xtermIndex ==
  /\ IF cur_row = bot_marg THEN ScrollUp(1) /\ UNCHANGED cur_row
     ELSE cur_row' = Smaller(cur_row + 1, max_row) /\ Quiet
  /\ Fixed
RevIndex ==
  /\ IF cur_row = top_marg THEN ScrollDown(1) /\ UNCHANGED cur_row
     ELSE cur_row' = Larger(cur_row - 1, 0) /\ Quiet
  /\ Fixed
SU(n) == ScrollUp(n) /\ UNCHANGED cur_row /\ Fixed

InRegionBelow == cur_row <= bot_marg
InRegion == cur_row \in top_marg..bot_marg

InsertLine(count) ==
  LET n     == Smaller(count, bot_marg - cur_row + 1)
      joins == jumpscroll /\ scroll_amt <= 0 /\ cur_row <= - refresh_amt
      full  == - refresh_amt + n > max_row + 1
  IN  /\ InRegion
      /\ IF joins THEN IF full THEN FlushThen(-n) ELSE Postpone(-n, -n)
         ELSE /\ win' = Opened(Flushed, cur_row, bot_marg, n, n)
              /\ savedlines' = FlushedSaved /\ scroll_amt' = 0 /\ refresh_amt' = 0
      /\ Spoils(joins /\ full /\ cur_row > top_marg)
      /\ buf' = Inserted(cur_row, n)
      /\ UNCHANGED cur_row /\ Fixed

\* The window after n lines were deleted at the cursor.
Closed(w, n) ==
  LET end    == max_row - n + 1
      still  == bot_marg - cur_row + 1 - n
      hidden == Larger(bot_marg - bot, 0)
      saves  == scrollWidget /\ cur_row = 0
      above  == IF saves \/ hidden = 0 THEN 0 ELSE Larger(cur_row + n - 1 - bot, 0)
  IN  Wipe(IF saves THEN Copy(w, n, Smaller(still + shift, end), n)
                    ELSE Copy(w, cur_row + shift + n, still - hidden, n),
           Smaller(bot_marg - n + 1 + shift, end), n - above)
DeleteLine(count) ==
  LET n     == Smaller(count, bot_marg - cur_row + 1)
      joins == jumpscroll /\ scroll_amt >= 0 /\ cur_row = top_marg
  IN  /\ InRegion
      /\ IF joins
         THEN IF refresh_amt + n > max_row + 1 THEN FlushThen(n) ELSE Postpone(n, n)
         ELSE /\ win' = Closed(Flushed, n)
              /\ savedlines' = Counted(FlushedSaved, cur_row, n)
              /\ scroll_amt' = 0 /\ refresh_amt' = 0
      /\ buf' = Deleted(cur_row, n)
      /\ Spoils(~joins /\ bot_marg > bot)
      /\ UNCHANGED cur_row /\ Fixed

-----------------------------------------------------------------------------
\* Text and erasing.

Visible == cur_row + shift <= max_row
Edge == IF refresh_amt > 0 THEN bot_marg - refresh_amt ELSE top_marg - refresh_amt
\* AddToRefresh: the rows to draw when the scrolls are flushed, and whether the
\* row of the cursor is one of them.
AddToRefresh ==
  IF refresh_amt = 0 \/ cur_row # Edge THEN refresh_amt
  ELSE IF refresh_amt > 0 THEN refresh_amt + 1 ELSE refresh_amt - 1
Covered ==
  \/ refresh_amt > 0 /\ cur_row \in (bot_marg - AddToRefresh + 1)..bot_marg
  \/ refresh_amt < 0 /\ cur_row \in top_marg..(top_marg - AddToRefresh - 1)

\* More rows to draw than the region has, and text in one of them outside it.
Overrun == Visible /\ Covered /\ ~InRegion

\* A part of the cursor's line is drawn in w.
Drawn(w, line) == [w EXCEPT ![cur_row + shift] = IF @ = buf[cur_row] THEN line ELSE Garbled]

\* WriteText, ClearInLine, InsertChar and DeleteChar.
Write(line) ==
  /\ IF ~Visible THEN UNCHANGED <<win, savedlines, pending>>
     ELSE IF Covered THEN refresh_amt' = AddToRefresh /\ UNCHANGED <<win, savedlines, scroll_amt>>
     ELSE /\ win' = Drawn(Flushed, line) /\ savedlines' = FlushedSaved
          /\ scroll_amt' = 0 /\ refresh_amt' = 0
  /\ buf' = [buf EXCEPT ![cur_row] = line]
  /\ Spoils(Overrun)
  /\ UNCHANGED cur_row /\ Fixed

\* ClearBelow: the rest of the line first, then what is below it.
ClearBelow(line) ==
  LET written == [buf EXCEPT ![cur_row] = line]
      w       == IF Covered THEN FlushedWith(written, AddToRefresh, top_marg, bot_marg)
                            ELSE Drawn(Flushed, line)
      row     == cur_row + shift + 1
  IN  /\ IF ~Visible THEN UNCHANGED <<win, savedlines, pending>>
         ELSE /\ win' = Wipe(w, row, max_row - row + 1) /\ savedlines' = FlushedSaved
              /\ scroll_amt' = 0 /\ refresh_amt' = 0
      /\ buf' = [Erased(cur_row + 1, max_row) EXCEPT ![cur_row] = line]
      /\ Spoils(Overrun)
      /\ UNCHANGED cur_row /\ Fixed
\* ClearAbove: what is above first; the line of the cursor only if the window shows it.
ClearAbove(line) ==
  LET w == Wipe(Flushed, shift, Smaller(cur_row + shift, max_row) - shift)
  IN  /\ IF shift > max_row THEN UNCHANGED <<win, savedlines, pending>>
         ELSE /\ win' = IF Visible THEN Drawn(w, line) ELSE w
              /\ savedlines' = FlushedSaved /\ scroll_amt' = 0 /\ refresh_amt' = 0
      /\ buf' = [Erased(0, cur_row - 1) EXCEPT ![cur_row] = IF Visible THEN line ELSE @]
      /\ Spoils(~Visible)
      /\ UNCHANGED cur_row /\ Fixed
\* The screen is filled with one character: a line of it is drawn whole.
DECALN(line) ==
  LET filled == [r \in DOMAIN buf |-> IF r \in Row THEN line ELSE buf[r]]
      under  == [r \in Row |-> IF Source(r, scroll_amt) \in shift..max_row THEN Blank
                               ELSE win[r]]
  IN  /\ buf' = filled
      /\ win' = Refreshed(under, filled, 0, max_row + 1, scroll_amt, topline)
      /\ Spoils(scroll_amt # 0 /\ topline # 0)
      /\ UNCHANGED <<savedlines, pending, cur_row>> /\ Fixed
ClearScreen == Cleared(savedlines, top_marg, bot_marg) /\ UNCHANGED <<cur_row, spoiled>> /\ Fixed

-----------------------------------------------------------------------------
\* Cursor, margins, modes.

CursorSet(row) == cur_row' = row /\ Quiet /\ Fixed

DECSTBMUnflushed(top, last) ==
  /\ top < last /\ top_marg' = top /\ bot_marg' = last /\ cur_row' \in {0, top}
  /\ UNCHANGED <<buf, win, savedlines, pending, topline, jumpscroll, scrollWidget, spoiled>>
\* DECSTBM flushes before it changes the margins, and so does memory lock (below
\* the region it crosses the margins: see VTCursor).
DECSTBM(top, last) ==
  /\ top < last
  /\ FlushScroll /\ top_marg' = top /\ bot_marg' = last
  /\ cur_row' \in {0, top}
  /\ UNCHANGED <<buf, topline, jumpscroll, scrollWidget, spoiled>>
MemLock(row) ==
  /\ row \in {0, cur_row} /\ row <= bot_marg
  /\ FlushScroll /\ top_marg' = row
  /\ UNCHANGED <<buf, cur_row, topline, bot_marg, jumpscroll, scrollWidget, spoiled>>
\* DECSCLM, and the entry of the menu.
DECSCLM(jump) ==
  /\ jumpscroll' = jump
  /\ IF jump THEN UNCHANGED <<win, savedlines, pending>> ELSE FlushScroll
  /\ UNCHANGED <<buf, cur_row, topline, margins, scrollWidget, spoiled>>

\* VTReset: soft and full.
DECSTR ==
  /\ top_marg' = 0 /\ bot_marg' = max_row
  /\ Spoils(scroll_amt # 0 /\ margins # <<0, max_row>>)
  /\ UNCHANGED <<buf, win, savedlines, pending, cur_row, topline, jumpscroll, scrollWidget>>
RIS ==
  /\ Cleared(0, 0, max_row)
  /\ top_marg' = 0 /\ bot_marg' = max_row /\ cur_row' = 0
  /\ jumpscroll' \in BOOLEAN
  /\ Spoils(scroll_amt # 0 /\ topline # 0)
  /\ UNCHANGED <<topline, scrollWidget>>

-----------------------------------------------------------------------------
\* X events, and more output.

\* Before it waits for input and before it handles events.
Flush == scroll_amt # 0 /\ FlushScroll /\ UNCHANGED <<buf, cur_row, spoiled>> /\ Fixed

WindowScroll(t) ==
  LET i     == topline - t
      lines == Smaller(IF i > 0 THEN i ELSE -i, max_row + 1)
      still == max_row - lines + 1
      moved == Copy(win, IF i > 0 THEN 0 ELSE lines, still, -i)
      first == IF i > 0 THEN 0 ELSE still
  IN  /\ i # 0 /\ topline' = t
      /\ win' = Refreshed(Wipe(moved, first, lines), buf, first, lines, scroll_amt, t)
      /\ Spoils(scroll_amt # 0)
      /\ UNCHANGED <<buf, savedlines, pending, cur_row, margins, jumpscroll, scrollWidget>>
\* The user drags the scrollbar.
Drag == /\ scrollWidget /\ scroll_amt = 0
        /\ \E t \in (-savedlines)..0 : WindowScroll(t)
\* scrollTtyOutput, when the parser needs more input.
Output == scrollWidget /\ topline < 0 /\ WindowScroll(0)

\* The window is exposed; its exposures come after a flush.
Expose == /\ scroll_amt = 0 /\ win' = Redrawn(win, buf, 0, max_row + 1)
          /\ spoiled' = FALSE
          /\ UNCHANGED <<buf, savedlines, pending, cur_row>> /\ Fixed

-----------------------------------------------------------------------------
Scrolls == \/ xtermIndex \/ RevIndex
           \/ \E n \in Count : SU(n) \/ InsertLine(n) \/ DeleteLine(n)
Text == \/ \E line \in Line : Write(line) \/ ClearBelow(line) \/ ClearAbove(line)
        \/ \E line \in Line \ {Blank} : DECALN(line)
        \/ ClearScreen
Modes == \/ \E row \in Row : CursorSet(row) \/ MemLock(row)
         \/ \E region \in Region : DECSTBM(region[1], region[2])
         \/ \E jump \in BOOLEAN : DECSCLM(jump)
         \/ DECSTR \/ RIS
Events == Flush \/ Drag \/ Output \/ Expose
Next == Scrolls \/ Text \/ Modes \/ Events
Spec == Init /\ [][Next]_vars

-----------------------------------------------------------------------------
\* The pending scrolls fit in the screen, and the rows to draw include those that
\* they bring in.
TypeOK ==
  /\ buf \in [(-savelines)..max_row -> Line] /\ win \in [Row -> Line \cup {Garbled}]
  /\ savedlines \in 0..savelines /\ topline \in (-savelines)..0
  /\ scroll_amt \in (-max_row - 1)..(max_row + 1)
  /\ refresh_amt \in (-max_row - 2)..(max_row + 2)
  /\ scroll_amt > 0 => refresh_amt >= scroll_amt
  /\ scroll_amt < 0 => refresh_amt <= scroll_amt
  /\ scroll_amt = 0 => refresh_amt = 0
  /\ cur_row \in Row /\ top_marg \in Row /\ bot_marg \in Row /\ top_marg <= bot_marg
  /\ jumpscroll \in BOOLEAN /\ scrollWidget \in BOOLEAN /\ spoiled \in BOOLEAN

\* However scrolls, text, erasures and margins follow each other, and wherever the
\* user has scrolled back to: as soon as the pending scrolls are flushed the
\* window shows the buffer, unless one of the named steps spoiled it.
WindowTrue == TypeOK /\ (~spoiled => Flushed = [r \in Row |-> buf[r + topline]])

Reachable == \A r \in (-savelines)..(-1) : buf[r] # Blank => -r <= FlushedSaved

\* A line that went off at the top can be scrolled back to as long as it is kept,
\* whether the scroll was put off, flushed or smooth; a full reset forgets all.
SavedStaysReachable == [][Reachable /\ ~Reachable' => RIS]_vars

AllBlank == \A r \in Row : buf[r] = Blank

\* "All done within the scrolling region, of course" (util.c:204,305): index,
\* reverse index, SU, IL and DL change no line outside it.  But for one case, which
\* the code has: a smooth scroll by the height of the region is done by
\* ClearScreen, which takes the rest of the screen too (util.c:237).
RegionOnly ==
  [][(\E r \in Row \ (top_marg..bot_marg) : buf'[r] # buf[r]) /\ (jumpscroll \/ ~AllBlank')
       => ~Scrolls]_vars

=============================================================================
