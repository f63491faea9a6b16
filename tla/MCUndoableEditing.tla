-------------------------- MODULE MCUndoableEditing --------------------------
(***************************************************************************)
(* UndoableEditing on one table of two records and a table for its copies. *)
(***************************************************************************)
EXTENDS UndoableEditing, TLC

CONSTANTS r1, r2, c1, main, copy, cell, v1, v2

MCTable == {main, copy}
MCRecord == {r1, r2, c1}
MCTableOf == [r \in MCRecord |-> IF r \in {r1, r2} THEN main ELSE copy]
MCField == {cell}
MCValue == {v1, v2}
MCResolve(cells) == cells
MCLookUp(t, cells, rows) == cells
=============================================================================
