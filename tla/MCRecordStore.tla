---------------------------- MODULE MCRecordStore ----------------------------
(***************************************************************************)
(* RecordStore on a table of two records and an empty table that a copy   *)
(* of it goes to while one of them is live.  A row has one cell, a formula *)
(* that wants it to be v1, and in the main table a lookup that makes it v2 *)
(* when some row has v2.                                                   *)
(***************************************************************************)
EXTENDS RecordStore, TLC

CONSTANTS r1, r2, c1, main, copy, cell, v1, v2

MCTable == {main, copy}
MCRecord == {r1, r2, c1}
MCTableOf == [r \in MCRecord |-> IF r \in {r1, r2} THEN main ELSE copy]
MCField == {cell}
MCValue == {v1, v2}
MCResolve(cells) == [f \in MCField |-> v1]
MCLookUp(t, cells, rows) ==
    IF t = main /\ \E r \in MCRecord : rows[r] = [f \in MCField |-> v2]
    THEN [f \in MCField |-> v2] ELSE cells
Symmetry == Permutations({r1, r2})
=============================================================================
