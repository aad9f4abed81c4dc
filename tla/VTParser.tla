------------------------------ MODULE VTParser ------------------------------
(***************************************************************************)
(* The parser of the VT100 emulator of xterm_177_motif: the tables of      *)
(* VTPrsTbl.c and the loop VTparse of charproc.c that looks every byte up  *)
(* in one of them (without wide characters and without the DEC locator, as *)
(* it is built).  What the functions do to the screen is in VTCursor and   *)
(* VTScroll; here is what a byte means after the bytes before it, which    *)
(* parameters a function reads, which bytes are a string's, and in which   *)
(* character set text is drawn.                                            *)
(***************************************************************************)
EXTENDS Integers, Sequences

CONSTANTS
  Byte,         \* the bytes that are received
  terminal_id,  \* the terminal that is emulated: 52, 100, 220, ... 420
  NPARAM,       \* the size of param
  MaxText,      \* text that arrives in one piece
  MaxString     \* bytes between the start and the end of a string

ASSUME ByteAssumption == Byte \subseteq 0..255
ASSUME BoundAssumption ==
  terminal_id \in 52..420 /\ NPARAM \in Nat \ {0, 1} /\ {MaxText, MaxString} \subseteq Nat \ {0}

VARIABLES
  groundtable,      \* the table without a sequence
  parsestate,       \* the table for the next byte
  nextstate,        \* what the table said of the last byte
  ansi_level,       \* 0: VT52
  nparam,           \* how many parameters the sequence has
  fresh,            \* history: the entries of param that it has set
  zeroed,           \* the entries of param that are 0 since the start or for the VT52
  vt52_cup,         \* the next two bytes are the row and the column of ESC Y
  string_mode,      \* the kind of string that is read
  string_used,      \* the bytes kept of it
  own,              \* history: the bytes since it started
  joined,           \* history: it started before the end of another one
  print_area,       \* text that is not drawn yet: the set each character belongs to
  curgl,            \* the set of text
  curss,            \* the set of the next character
  single,           \* history: the single shift that no character has followed
  sc_curgl,         \* curgl as the cursor was saved, -1: never
  c1_printable,     \* resource: 128..159 are text
  drawn,            \* what the last byte had drawn: the set of each character, the one used
  read,             \* the entries of param it had read
  handed            \* the string it had interpreted

level == <<groundtable, ansi_level>>
params == <<nparam, fresh, zeroed, vt52_cup>>
strings == <<string_mode, string_used, own, joined>>
shifts == <<curgl, curss, single, sc_curgl>>
effect == <<drawn, read, handed>>
parser == <<parsestate, nextstate, level, params, strings, print_area, shifts, c1_printable,
          effect>>

-----------------------------------------------------------------------------
\* The tables.  Cases are named without CASE_.

\* What a record of sets says of an element of one of them, if any does.
Named(cases, b, other) ==
  IF \E k \in DOMAIN cases : b \in cases[k]
  THEN CHOOSE k \in DOMAIN cases : b \in cases[k] ELSE other

C0 == [b \in 0..31 |-> Named(
        [ENQ |-> {5}, BELL |-> {7}, BS |-> {8}, TAB |-> {9}, VMOT |-> 10..12, CR |-> {13},
         SO |-> {14}, SI |-> {15}, GROUND_STATE |-> {24, 26}, ESC |-> {27}], b, "IGNORE")]
C1 == [b \in 128..159 |-> Named(
        [IND |-> {132}, NEL |-> {133}, HTS |-> {136}, RI |-> {141}, SS2 |-> {142},
         SS3 |-> {143}, DCS |-> {144}, SPA |-> {150}, EPA |-> {151}, SOS |-> {152},
         DECID |-> {154}, CSI_STATE |-> {155}, ST |-> {156}, OSC |-> {157}, PM |-> {158},
         APC |-> {159}], b, "GROUND_STATE")]

\* 160..255 mean what 32..127 do.
Table(g) == [b \in 0..255 |-> IF b < 32 THEN C0[b] ELSE IF b \in 128..159 THEN C1[b]
                               ELSE IF b < 128 THEN g[b] ELSE g[b - 128]]
\* A sequence with some cases named: bytes up to last are its middle, of which
\* those without a name mean rest; of the others these end it.
Sequence(last, rest, cases) ==
  Table([b \in 32..127 |-> Named(cases, b, IF b <= last THEN rest
                                           ELSE IF b = 127 THEN "IGNORE" ELSE "GROUND_STATE")])

ansi_table == Table([b \in 32..127 |-> "PRINT"])

\* A sequence with parameters.
Numbered(table) == [b \in 0..255 |-> Named(
  [ESC_DIGIT |-> (48..57) \cup (176..185), ESC_SEMI |-> {59, 187}], b, table[b])]
csi2_table == Numbered(Sequence(63, "CSI_IGNORE",
  [CSI_EX_STATE |-> {33}, CSI_QUOTE_STATE |-> {34}, ICH |-> {64}, CUU |-> {65}, CUD |-> {66},
   CUF |-> {67}, CUB |-> {68}, CNL |-> {69}, CPL |-> {70}, HPA |-> {71, 96}, CUP |-> {72, 102},
   CHT |-> {73}, ED |-> {74}, EL |-> {75}, IL |-> {76}, DL |-> {77}, DCH |-> {80},
   SU |-> {83}, TRACK_MOUSE |-> {84}, ECH |-> {88}, CBT |-> {90}, REP |-> {98}, DA1 |-> {99},
   VPA |-> {100}, TBC |-> {103}, SET |-> {104}, MC |-> {105}, RST |-> {108}, SGR |-> {109},
   CPR |-> {110}, DECSTBM |-> {114}, DECSC |-> {115}, XTERM_WINOPS |-> {116},
   DECRC |-> {117}, DECREQTPARM |-> {120}]))
\* Right after CSI the sequence may still become a private one.
csi_table == [b \in 0..255 |-> Named(
  [DEC3_STATE |-> {61, 189}, DEC2_STATE |-> {62, 190}, DEC_STATE |-> {63, 191}],
  b, csi2_table[b])]
csi_ex_table == Sequence(63, "CSI_IGNORE", [DECSTR |-> {112}])
csi_quo_table == Sequence(63, "CSI_IGNORE", [DECSCL |-> {112}, DECSCA |-> {113}])
dec_table == Numbered(Sequence(63, "CSI_IGNORE",
  [DECSED |-> {74}, DECSEL |-> {75}, DECSET |-> {104}, DEC_MC |-> {105}, DECRST |-> {108},
   DSR |-> {110}, XTERM_RESTORE |-> {114}, XTERM_SAVE |-> {115}]))
dec2_table == Numbered(Sequence(63, "CSI_IGNORE", [DA2 |-> {99}]))
dec3_table == Numbered(Sequence(63, "CSI_IGNORE", [DECRPTUI |-> {99}]))
cigtable == Sequence(63, "IGNORE", << >>)
eigtable == Sequence(47, "IGNORE", << >>)
esc_table == Sequence(47, "ESC_IGNORE",
  [ESC_SP_STATE |-> {32}, SCR_STATE |-> {35}, SCS0_STATE |-> {40}, SCS1_STATE |-> {41},
   SCS2_STATE |-> {42}, SCS3_STATE |-> {43}, DECSC |-> {55}, DECRC |-> {56}, DECKPAM |-> {61},
   DECKPNM |-> {62}, IND |-> {68}, NEL |-> {69}, HP_BUGGY_LL |-> {70}, HTS |-> {72},
   RI |-> {77}, SS2 |-> {78}, SS3 |-> {79}, DCS |-> {80}, XTERM_TITLE |-> {84}, SPA |-> {86},
   EPA |-> {87}, SOS |-> {88}, DECID |-> {90}, CSI_STATE |-> {91}, ST |-> {92}, OSC |-> {93},
   PM |-> {94}, APC |-> {95}, RIS |-> {99}, HP_MEM_LOCK |-> {108}, HP_MEM_UNLOCK |-> {109},
   LS2 |-> {110}, LS3 |-> {111}, LS3R |-> {124}, LS2R |-> {125}, LS1R |-> {126}])
esc_sp_table == Sequence(47, "ESC_IGNORE",
  [S7C1T |-> {70}, S8C1T |-> {71}, ANSI_LEVEL_1 |-> {76}, ANSI_LEVEL_2 |-> {77},
   ANSI_LEVEL_3 |-> {78}])
scrtable == Sequence(47, "ESC_IGNORE",
  [DECDHL |-> {51, 52}, DECSWL |-> {53}, DECDWL |-> {54}, DECALN |-> {56}])
scstable == Sequence(47, "ESC_IGNORE",
  [GSETS |-> (48..50) \cup (52..55) \cup {61} \cup (65..67) \cup {69, 72, 75, 81, 82, 89, 90}])
\* In a string only BEL, CAN, SUB, ESC and 128..159 are not a part of it.
sos_table == [b \in 0..255 |-> IF b \in {7, 24, 26, 27} THEN C0[b]
                               ELSE IF b \in 128..159 THEN C1[b] ELSE "IGNORE"]

\* The VT52 has no shifts and only 7 bits.
Vt52(cases, last, rest, others) ==
  [b \in 0..255 |-> IF b \in 0..31 THEN (IF b \in {14, 15} THEN "IGNORE" ELSE C0[b])
                    ELSE IF b >= 127 THEN "IGNORE"
                    ELSE Named(cases, b, IF b <= last THEN rest ELSE others)]
vt52_table == Vt52(<< >>, 31, "IGNORE", "PRINT")
vt52_esc_table == Vt52(
  [ANSI_LEVEL_1 |-> {60}, DECKPAM |-> {61}, DECKPNM |-> {62}, CUU |-> {65}, CUD |-> {66},
   CUF |-> {67}, CUB |-> {68}, SO |-> {70}, SI |-> {71}, CUP |-> {72}, RI |-> {73},
   ED |-> {74}, EL |-> {75}, VT52_CUP |-> {89}, DECID |-> {90}],
  47, "VT52_IGNORE", "GROUND_STATE")
vt52_ignore_table == Vt52(<< >>, 47, "IGNORE", "GROUND_STATE")

Tables == [ansi_table |-> ansi_table, csi_table |-> csi_table, csi2_table |-> csi2_table,
  csi_ex_table |-> csi_ex_table, csi_quo_table |-> csi_quo_table, dec_table |-> dec_table,
  dec2_table |-> dec2_table, dec3_table |-> dec3_table, cigtable |-> cigtable,
  eigtable |-> eigtable, esc_table |-> esc_table, esc_sp_table |-> esc_sp_table,
  scrtable |-> scrtable, scstable |-> scstable, sos_table |-> sos_table,
  vt52_table |-> vt52_table, vt52_esc_table |-> vt52_esc_table,
  vt52_ignore_table |-> vt52_ignore_table]

-----------------------------------------------------------------------------
\* What a function reads of param.

First == {"ICH", "CUU", "CUD", "CUF", "CUB", "CNL", "CPL", "HPA", "VPA", "CHT", "CBT", "ED",
  "EL", "IL", "DL", "DCH", "SU", "ECH", "REP", "DA1", "DA2", "DECRPTUI", "TBC", "MC",
  "DEC_MC", "CPR", "DSR", "DECREQTPARM", "DECSED", "DECSEL", "DECSCA"}
Pair == {"CUP", "DECSTBM"}
Every == {"SGR", "SET", "RST", "DECSET", "DECRST", "XTERM_SAVE", "XTERM_RESTORE"}
\* They read entries that the sequence need not have.
Careless == {"TRACK_MOUSE", "DECSCL", "XTERM_WINOPS"}
Without == {"GROUND_STATE", "IND", "NEL", "HTS", "RI", "SPA", "EPA", "DECKPAM", "DECKPNM",
  "HP_BUGGY_LL", "HP_MEM_LOCK", "HP_MEM_UNLOCK", "DECDHL", "DECSWL", "DECDWL", "DECALN",
  "GSETS", "LS1R", "LS2R", "LS3R", "S7C1T", "S8C1T"}

Reads(t) ==
  CASE t \in First -> {{0}}
    [] t \in Pair -> {IF nparam < 2 THEN {0} ELSE {0, 1}}
    [] t \in Every -> {0 .. nparam - 1}
    [] t = "TRACK_MOUSE" -> IF nparam > 1 THEN {0..4} ELSE {{0}, 0..4}
    [] t = "DECSCL" -> {{0}, {0, 1}}
    [] t = "XTERM_WINOPS" -> {{0}, {0, 1}, {0, 1, 2}}
    [] OTHER -> {{}}

-----------------------------------------------------------------------------
ParserInit ==
  /\ ansi_level = terminal_id \div 100
  /\ groundtable = IF ansi_level = 0 THEN "vt52_table" ELSE "ansi_table"
  /\ parsestate = groundtable
  /\ nextstate = "none"
  /\ nparam = 0 /\ fresh = {} /\ zeroed = 0 .. NPARAM - 1 /\ vt52_cup = FALSE
  /\ string_mode = "none" /\ string_used = 0 /\ own = 0 /\ joined = FALSE
  /\ print_area = << >>
  /\ curgl = 0 /\ curss = 0 /\ single = 0 /\ sc_curgl = -1
  /\ c1_printable \in BOOLEAN
  /\ drawn = {} /\ read = {} /\ handed = {}

\* What the table says of byte c.  128..159 as text mean what 160 does, but do
\* not start ESC SP.
Looked(c) ==
  LET t == Tables[parsestate][IF c1_printable /\ c \in 128..159 THEN 160 ELSE c]
  IN IF c1_printable /\ c \in 128..159 /\ t = "ESC_SP_STATE" THEN "ESC_IGNORE" ELSE t

\* A mutation of Ended: only text itself has text drawn.
EndedByText == << >>

\* The text that this byte ends, and how it is drawn: the first character in
\* curss, if that is set, the others in curgl.
Ended == IF nextstate = "PRINT" THEN print_area ELSE << >>
Drawn(text) == {<<text[i], IF i = 1 /\ curss # 0 THEN curss ELSE curgl>> : i \in DOMAIN text}
CurssLeft == IF Ended = << >> THEN curss ELSE 0

\* A mutation of Kept: in the ground state string_used is not set to 0.
KeptOn ==
  CASE parsestate = "sos_table" -> <<string_mode, string_used + 1, own + 1, joined>>
    [] parsestate = "esc_table" -> strings
    [] parsestate = groundtable -> <<"none", string_used, 0, FALSE>>
    [] OTHER -> <<"none", 0, 0, FALSE>>

\* Every byte in a string is kept, also the one that will end it; a byte that
\* is neither in a string nor after an ESC forgets it.
Kept ==
  CASE parsestate = "sos_table" -> <<string_mode, string_used + 1, own + 1, joined>>
    [] parsestate = "esc_table" -> strings
    [] OTHER -> <<"none", 0, 0, FALSE>>
Strings(s) == string_mode' = s[1] /\ string_used' = s[2] /\ own' = s[3] /\ joined' = s[4]
KeepString == Strings(Kept)

Ground == parsestate' = groundtable /\ UNCHANGED level
NoShift == curss' = CurssLeft /\ UNCHANGED <<curgl, single, sc_curgl>>
resetCharsets == curgl' = 0 /\ curss' = 0 /\ single' = 0

\* Text is collected while there is more of it in the buffer.
Graphic(c) ==
  LET text == Append(print_area, IF single # 0 THEN single ELSE curgl)
  IN /\ Looked(c) = "PRINT"
     /\ single' = 0
     /\ read' = {} /\ handed' = {}
     /\ UNCHANGED <<parsestate, level, params, curgl, sc_curgl>>
     /\ \/ /\ Len(text) < MaxText
           /\ print_area' = text /\ drawn' = {}
           /\ UNCHANGED <<strings, curss>>
        \/ /\ print_area' = << >> /\ drawn' = Drawn(text)
           /\ KeepString /\ curss' = 0

-----------------------------------------------------------------------------
\* The cases that stay in their table.

Stay(t) ==
  /\ \/ t \in {"IGNORE", "ENQ", "BS", "CR", "VMOT", "TAB", "XTERM_TITLE"}
     \/ t = "S8C1T" /\ ansi_level <= 1
  /\ KeepString /\ NoShift
  /\ read' = {} /\ handed' = {}
  /\ UNCHANGED <<parsestate, level, params>>

ShiftInOut(t) ==
  /\ t \in {"SI", "SO"}
  /\ curgl' = (IF t = "SI" THEN 0 ELSE 1)
  /\ curss' = CurssLeft
  /\ KeepString
  /\ read' = {} /\ handed' = {}
  /\ UNCHANGED <<parsestate, level, params, single, sc_curgl>>

\* The cases that go to another table.
Entry == [SCR_STATE |-> "scrtable", SCS0_STATE |-> "scstable", SCS1_STATE |-> "scstable",
  SCS2_STATE |-> "scstable", SCS3_STATE |-> "scstable", ESC_IGNORE |-> "eigtable",
  DEC_STATE |-> "dec_table", DEC2_STATE |-> "dec2_table", DEC3_STATE |-> "dec3_table",
  CSI_QUOTE_STATE |-> "csi_quo_table", CSI_EX_STATE |-> "csi_ex_table",
  ESC_SP_STATE |-> "esc_sp_table", CSI_IGNORE |-> "cigtable",
  VT52_IGNORE |-> "vt52_ignore_table"]

Enter(t) ==
  /\ t \in DOMAIN Entry
  /\ parsestate' = Entry[t]
  /\ KeepString /\ NoShift
  /\ read' = {} /\ handed' = {}
  /\ UNCHANGED <<level, params>>

Escape(t) ==
  /\ t = "ESC"
  /\ parsestate' = (IF ansi_level = 0 THEN "vt52_esc_table" ELSE "esc_table")
  /\ fresh' = {}
  /\ KeepString /\ NoShift
  /\ read' = {} /\ handed' = {}
  /\ UNCHANGED <<level, nparam, zeroed, vt52_cup>>

-----------------------------------------------------------------------------
\* Parameters.

ControlSequence(t) ==
  /\ t = "CSI_STATE"
  /\ nparam' = 1 /\ fresh' = {0} /\ zeroed' = zeroed \ {0}
  /\ parsestate' = "csi_table"
  /\ KeepString /\ NoShift
  /\ read' = {} /\ handed' = {}
  /\ UNCHANGED <<level, vt52_cup>>

\* A digit is of the last parameter.
DigitOrSemi(t) ==
  /\ t \in {"ESC_DIGIT", "ESC_SEMI"}
  /\ IF t = "ESC_SEMI" /\ nparam < NPARAM
     THEN /\ nparam' = nparam + 1
          /\ fresh' = fresh \cup {nparam} /\ zeroed' = zeroed \ {nparam}
     ELSE /\ fresh' = fresh \cup {nparam - 1} /\ zeroed' = zeroed \ {nparam - 1}
          /\ UNCHANGED nparam
  /\ parsestate' = (IF parsestate = "csi_table" THEN "csi2_table" ELSE parsestate)
  /\ KeepString /\ NoShift
  /\ read' = {} /\ handed' = {}
  /\ UNCHANGED <<level, vt52_cup>>

VT52_CUP(t) ==
  /\ t = "VT52_CUP"
  /\ vt52_cup' = TRUE /\ nparam' = 0
  /\ KeepString /\ NoShift
  /\ read' = {} /\ handed' = {}
  /\ UNCHANGED <<parsestate, level, fresh, zeroed>>

\* A mutation of CupByte: the row and the column stay in param.
CupByteStays ==
  /\ vt52_cup
  /\ nparam' = nparam + 1
  /\ fresh' = fresh \cup {nparam} /\ zeroed' = zeroed \ {nparam}
  /\ IF nparam + 1 < 2
     THEN read' = {} /\ UNCHANGED <<parsestate, vt52_cup>>
     ELSE read' = {0, 1} /\ vt52_cup' = FALSE /\ parsestate' = "vt52_table"
  /\ drawn' = {} /\ handed' = {}
  /\ UNCHANGED <<nextstate, level, strings, print_area, shifts, c1_printable>>

\* The row and the column, before anything else is asked of the byte.
CupByte ==
  /\ vt52_cup
  /\ nparam' = nparam + 1
  /\ IF nparam + 1 < 2
     THEN /\ read' = {}
          /\ fresh' = fresh \cup {nparam} /\ zeroed' = zeroed \ {nparam}
          /\ UNCHANGED <<parsestate, vt52_cup>>
     ELSE /\ read' = {0, 1}
          /\ fresh' = fresh \cup {nparam} /\ zeroed' = zeroed \cup {0, 1}
          /\ vt52_cup' = FALSE
          /\ parsestate' = "vt52_table"
  /\ drawn' = {} /\ handed' = {}
  /\ UNCHANGED <<nextstate, level, strings, print_area, shifts, c1_printable>>

-----------------------------------------------------------------------------
\* Strings.

Starts == {"SOS", "PM", "DCS", "APC", "OSC"}

\* string_used is not set to 0.
StartString(t) ==
  /\ t \in Starts
  /\ parsestate' = "sos_table"
  /\ Strings(<<t, Kept[2], 0, Kept[1] # "none">>)
  /\ NoShift
  /\ read' = {} /\ handed' = {}
  /\ UNCHANGED <<level, params>>

\* The last byte kept of a string is the one that ended it, or its ESC.
Hand == handed' = {[used |-> Kept[2] - 1, own |-> Kept[3] - 1, joined |-> Kept[4]]}

BELL(t) ==
  /\ t = "BELL"
  /\ IF Kept[1] = "OSC"
     THEN /\ Strings([Kept EXCEPT ![2] = IF @ > 0 THEN @ - 1 ELSE 0])
          /\ Hand /\ Ground
     ELSE KeepString /\ handed' = {} /\ UNCHANGED <<parsestate, level>>
  /\ NoShift /\ read' = {}
  /\ UNCHANGED params

ST(t) ==
  /\ t = "ST"
  /\ IF Kept[2] = 0
     THEN KeepString /\ handed' = {} /\ UNCHANGED <<parsestate, level>>
     ELSE /\ Strings([Kept EXCEPT ![2] = @ - 1])
          /\ IF Kept[1] \in {"DCS", "OSC"} THEN Hand ELSE handed' = {}
          /\ Ground
  /\ NoShift /\ read' = {}
  /\ UNCHANGED params

-----------------------------------------------------------------------------
\* Functions.

\* Those that only draw, answer or set what is not modelled here.
Function(t) ==
  /\ t \in First \cup Pair \cup Without \cup {"SGR", "SET", "RST", "TRACK_MOUSE",
           "XTERM_WINOPS"}
  /\ t = "S8C1T" => ansi_level > 1
  /\ read' \in Reads(t)
  /\ Ground
  /\ KeepString /\ handed' = {} /\ NoShift
  /\ UNCHANGED params

DECID(t) ==
  /\ t = "DECID"
  /\ IF ansi_level = 0
     THEN read' = {} /\ UNCHANGED <<fresh, zeroed>>
     ELSE read' = {0} /\ fresh' = fresh \cup {0} /\ zeroed' = zeroed \ {0}
  /\ Ground
  /\ KeepString /\ handed' = {} /\ NoShift
  /\ UNCHANGED <<nparam, vt52_cup>>

SingleShift(t) ==
  /\ t \in {"SS2", "SS3"}
  /\ curss' = (IF t = "SS2" THEN 2 ELSE 3) /\ single' = curss'
  /\ Ground
  /\ KeepString /\ read' = {} /\ handed' = {}
  /\ UNCHANGED <<params, curgl, sc_curgl>>

LockingShift(t) ==
  /\ t \in {"LS2", "LS3"}
  /\ curgl' = (IF t = "LS2" THEN 2 ELSE 3)
  /\ curss' = CurssLeft
  /\ Ground
  /\ KeepString /\ read' = {} /\ handed' = {}
  /\ UNCHANGED <<params, single, sc_curgl>>

CursorSave == sc_curgl' = curgl /\ curss' = CurssLeft /\ UNCHANGED <<curgl, single>>
CursorRestore ==
  IF sc_curgl = -1 THEN resetCharsets /\ UNCHANGED sc_curgl
  ELSE curgl' = sc_curgl /\ curss' = CurssLeft /\ UNCHANGED <<single, sc_curgl>>

\* XTERM_SAVE and XTERM_RESTORE do it for mode 1048.
SaveOrRestore(t) ==
  /\ \/ t \in {"DECSC", "XTERM_SAVE"} /\ CursorSave
     \/ t \in {"DECRC", "XTERM_RESTORE"} /\ CursorRestore
     \/ t \in {"XTERM_SAVE", "XTERM_RESTORE"} /\ NoShift
  /\ read' \in Reads(t)
  /\ Ground
  /\ KeepString /\ handed' = {}
  /\ UNCHANGED params

-----------------------------------------------------------------------------
\* The level of the terminal.

\* A mutation of ANSI_LEVEL: the sequence ends in the table it started in.
ANSI_LEVELOldGround(t) ==
  /\ t \in {"ANSI_LEVEL_1", "ANSI_LEVEL_2", "ANSI_LEVEL_3"}
  /\ ansi_level' =
       CASE t = "ANSI_LEVEL_1" /\ terminal_id >= 100 -> 1
         [] t = "ANSI_LEVEL_2" /\ terminal_id >= 200 -> 2
         [] t = "ANSI_LEVEL_3" /\ terminal_id >= 300 -> 3
         [] OTHER -> ansi_level
  /\ groundtable' = (IF t = "ANSI_LEVEL_1" /\ terminal_id >= 100 THEN "ansi_table"
                     ELSE groundtable)
  /\ parsestate' = groundtable
  /\ KeepString /\ NoShift
  /\ read' = {} /\ handed' = {}
  /\ UNCHANGED params

ANSI_LEVEL(t) ==
  /\ t \in {"ANSI_LEVEL_1", "ANSI_LEVEL_2", "ANSI_LEVEL_3"}
  /\ ansi_level' =
       CASE t = "ANSI_LEVEL_1" /\ terminal_id >= 100 -> 1
         [] t = "ANSI_LEVEL_2" /\ terminal_id >= 200 -> 2
         [] t = "ANSI_LEVEL_3" /\ terminal_id >= 300 -> 3
         [] OTHER -> ansi_level
  /\ groundtable' = (IF t = "ANSI_LEVEL_1" /\ terminal_id >= 100 THEN "ansi_table"
                     ELSE groundtable)
  /\ parsestate' = groundtable'
  /\ KeepString /\ NoShift
  /\ read' = {} /\ handed' = {}
  /\ UNCHANGED params

DECSCL(t) ==
  /\ t = "DECSCL"
  /\ \/ read' = {0} /\ ansi_level' \in {ansi_level, 1}
     \/ read' = {0, 1} /\ ansi_level' \in {2, 3}
  /\ parsestate' = groundtable
  /\ KeepString /\ NoShift /\ handed' = {}
  /\ UNCHANGED <<groundtable, params>>

\* Of the modes of dpmodes, 2 (ANSI or VT52), 1048 (save or restore the
\* cursor) and any other one; a list is like one sequence for each.
DECSET(t) ==
  /\ t = "DECSET"
  /\ \E mode \in {2, 1048, 0} :
       /\ ansi_level' = (IF mode = 2 THEN 1 ELSE ansi_level)
       /\ CASE mode = 2 -> resetCharsets /\ UNCHANGED sc_curgl
            [] mode = 1048 -> CursorSave
            [] OTHER -> NoShift
  /\ parsestate' = groundtable
  /\ read' \in Reads(t)
  /\ KeepString /\ handed' = {}
  /\ UNCHANGED <<groundtable, params>>

DECRST(t) ==
  /\ t = "DECRST"
  /\ \E mode \in {2, 1048, 0} :
       IF mode = 2 /\ terminal_id >= 100
       THEN /\ ansi_level' = 0
            /\ zeroed' = zeroed \cup {0, 1}
            /\ resetCharsets /\ UNCHANGED sc_curgl
       ELSE /\ UNCHANGED <<ansi_level, zeroed>>
            /\ IF mode = 1048 THEN CursorRestore ELSE NoShift
  /\ groundtable' = (IF ansi_level' = 0 THEN "vt52_table"
                     ELSE IF terminal_id >= 100 THEN "ansi_table" ELSE groundtable)
  /\ parsestate' = groundtable'
  /\ read' \in Reads(t)
  /\ KeepString /\ handed' = {}
  /\ UNCHANGED <<nparam, fresh, vt52_cup>>

\* VTReset jumps to the start of VTparse.  vt52_cup, nparam and string_used are
\* static there and stay as they are.
VTReset ==
  /\ resetCharsets /\ sc_curgl' = 0
  /\ groundtable' = (IF ansi_level = 0 THEN "vt52_table" ELSE "ansi_table")
  /\ parsestate' = groundtable'
  /\ nextstate' = "none"
  /\ read' = {} /\ handed' = {}
  /\ UNCHANGED <<ansi_level, params>>

Reset(t) ==
  /\ t \in {"RIS", "DECSTR"}
  /\ VTReset
  /\ Strings([Kept EXCEPT ![1] = "none"])

\* The menu is served while VTparse waits for input, thus with no text pending.
MenuReset ==
  /\ print_area = << >>
  /\ VTReset
  /\ string_mode' = "none"
  /\ drawn' = {}
  /\ UNCHANGED <<string_used, own, joined, print_area, c1_printable>>

-----------------------------------------------------------------------------
Settled(t) ==
  \/ Stay(t) \/ ShiftInOut(t) \/ Enter(t) \/ Escape(t)
  \/ ControlSequence(t) \/ DigitOrSemi(t) \/ VT52_CUP(t)
  \/ StartString(t) \/ BELL(t) \/ ST(t)
  \/ Function(t) \/ DECID(t) \/ SingleShift(t) \/ LockingShift(t) \/ SaveOrRestore(t)
  \/ ANSI_LEVEL(t) \/ DECSCL(t) \/ DECSET(t) \/ DECRST(t)

\* A string of MaxString bytes is given one that ends it.
Fits(c) == parsestate = "sos_table" /\ string_used >= MaxString =>
  \/ Looked(c) \in {"ST", "GROUND_STATE"}
  \/ Looked(c) = "BELL" /\ string_mode = "OSC"

Received(c) ==
  /\ ~vt52_cup
  /\ Fits(c)
  /\ UNCHANGED c1_printable
  /\ \/ nextstate' = Looked(c) /\ Graphic(c)
     \/ /\ Looked(c) # "PRINT"
        /\ print_area' = (IF Ended = << >> THEN print_area ELSE << >>)
        /\ drawn' = Drawn(Ended)
        /\ \/ nextstate' = Looked(c) /\ Settled(Looked(c))
           \/ Reset(Looked(c))

ParserNext == CupByte \/ MenuReset \/ \E c \in Byte : Received(c)
ParserSpec == ParserInit /\ [][ParserNext]_parser

-----------------------------------------------------------------------------
\* Properties.

Sequences == {"csi_table", "csi2_table", "dec_table", "dec2_table", "dec3_table"}

\* Every variable has its type.  A table with digits is only used with a
\* parameter to put them in, which the sequence has set; the row and the column
\* of ESC Y are entries 0 and 1, whatever resets the terminal between them;
\* text is only pending as long as it is what arrived last.
ParserTypeOK ==
  /\ {groundtable, parsestate} \subseteq DOMAIN Tables
  /\ ansi_level \in 0..9
  /\ nparam \in 0..NPARAM
  /\ fresh \subseteq 0..NPARAM /\ zeroed \subseteq 0..NPARAM
  /\ vt52_cup \in BOOLEAN /\ c1_printable \in BOOLEAN /\ joined \in BOOLEAN
  /\ string_mode \in Starts \cup {"none"} /\ string_used \in Nat /\ own \in Nat
  /\ print_area \in Seq(0..3) /\ Len(print_area) < MaxText
  /\ {curgl, curss, single} \subseteq 0..3 /\ sc_curgl \in -1..3
  /\ parsestate \in Sequences => nparam >= 1 /\ 0 .. nparam - 1 \subseteq fresh
  /\ vt52_cup => nparam <= 1
  /\ print_area # << >> => nextstate = "PRINT"

\* Outside of a sequence bytes are looked up in the table of the level that the
\* terminal has, however it got there (DECSET, DECRST, DECSCL, ESC SP, ESC < or
\* a reset): a VT52 that is at a level above 0, or the other way round, would
\* understand none of its sequences (groundtable, charproc.c:1893).
LevelMatchesGround == (groundtable = "vt52_table") <=> (ansi_level = 0)

\* A function reads only parameters that its own sequence has set, or that are
\* 0 for a VT52, which sets none: never one of an earlier sequence.  CSI T with
\* the mouse tracked, DECSCL and the window operations do not look how many
\* there are; of them only the first is sure to be theirs.  (ParserTypeOK says why: no
\* table with digits is in use without a parameter that was set.)
ReadsOwn == []ParserTypeOK /\ [][
  read' \ (fresh' \cup zeroed') \subseteq (IF nextstate' \in Careless THEN 1..4 ELSE {})]_parser

\* What is interpreted as a device control or operating system command is all
\* the bytes between its start and its end and nothing else, unless it started
\* inside a string that had not ended (string_used, charproc.c:1100).
StringWhole == [][\A s \in handed' : ~s.joined => s.used = s.own]_parser

\* Every character is drawn in the character set that was selected when it
\* arrived, though it may be drawn after the byte that selects another set
\* (charproc.c:1076).
TextInItsSet == [][\A d \in drawn' : d[1] = d[2]]_parser

Functions == Without \cup First \cup Pair \cup Every \cup Careless \cup
  {"DECID", "SS2", "SS3", "LS2", "LS3", "DECSC", "DECRC", "ST",
   "ANSI_LEVEL_1", "ANSI_LEVEL_2", "ANSI_LEVEL_3"}

\* After the last byte of a sequence the next one is looked up in the ground
\* table, also by a function that changes that table.  Two do not: a string
\* terminator without a string, and S8C1T for a terminal that has no 8-bit
\* controls, whose next byte is taken for the rest of a sequence.
FunctionsEnd == [][
  nextstate' \in Functions /\ parsestate' # groundtable' =>
    \/ nextstate' = "ST" /\ Kept[2] = 0
    \/ nextstate' = "S8C1T" /\ ansi_level <= 1]_parser
=============================================================================
