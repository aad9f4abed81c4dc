----------------------------- MODULE MCVTParser -----------------------------
(***************************************************************************)
(* Bounds for VTParser: a byte of every kind that a table tells apart.     *)
(***************************************************************************)
EXTENDS VTParser

Controls == {7, 14, 15, 24, 27}
Final == {49, 56, 59, 60, 70, 71, 72, 76, 77, 78, 80, 84, 89, 92, 93, 99, 104, 108, 109, 110,
          112, 114, 115}
Middle == {32, 33, 34, 35, 61, 62, 63, 88, 91}
EightBit == {132, 154, 155, 156}
MCByte == Controls \cup Final \cup Middle \cup EightBit

\* Of what the last byte had done only what the next one looks at.
MCView == <<parsestate, print_area # << >>, level, params, strings, print_area, shifts,
            c1_printable>>
=============================================================================
