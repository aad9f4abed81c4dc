----------------------------- MODULE MCVTCursor -----------------------------
(***************************************************************************)
(* VTCursor on windows of at most 3 rows and 2 columns.                    *)
(***************************************************************************)
EXTENDS VTCursor

Windows == {<<3, 2>>, <<2, 1>>, <<1, 2>>}
Wraparound == {"WRAPAROUND"}
=============================================================================
