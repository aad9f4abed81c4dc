----------------------------- MODULE MCVTScroll -----------------------------
(* Small instances of VTScroll.                                            *)
EXTENDS VTScroll

\* Every pair of rows.
MCRegion == Row \X Row

\* Nothing reads a window that was left wrong: states that differ in it are one.
MCView == <<IF spoiled THEN <<>> ELSE win, buf, topline, savedlines, pending, cur_row,
            margins, jumpscroll, scrollWidget, spoiled>>
=============================================================================
