----------------------------- MODULE FieldEditing -----------------------------
(***************************************************************************)
(* FieldStore as an editor uses it who writes cells that fit their field,  *)
(* whose process does not die between a change and its op, and who does    *)
(* not redo a batch that was undone before a newer edit.  Views are left   *)
(* out: their edits are not logged, and the grid's cells do not show them. *)
(*                                                                         *)
(* versions and line are history variables: the versions on the line and   *)
(* the batch that leads from each of them to the next.                     *)
(***************************************************************************)
EXTENDS FieldStore

VARIABLES versions, line, cursor

evars == <<vars, versions, line, cursor>>

Fits(v, type) ==
    v \in {Null, NoKey} \/ (IsList(v) <=> type = "multipleSelect")

\* What the grid shows: the fields that are not deleted and their cells.
ShownIn(ds, cs) ==
    LET shown == {f \in Field : ds[f] # None /\ ~ds[f].deleted}
    IN [defs |-> [f \in Field |-> IF f \in shown THEN ds[f] ELSE None],
        cells |-> [r \in Record |->
                    [f \in Field |-> IF f \in shown THEN cs[r][f] ELSE NoKey]]]
Shown == ShownIn(defs, cells)

EInit ==
    /\ Init
    /\ versions = <<Shown>>
    /\ line = <<>>
    /\ cursor = 1

Edit ==
    /\ \/ \E f \in Field : EditField(f)
       \/ \E r \in Record, f \in Active : \E v \in Written :
            Fits(v, defs[f].type) /\ UpdateRecord(r, f, v)
    /\ Len(batches') = Len(batches) + 1
    /\ versions' = Append(SubSeq(versions, 1, cursor), ShownIn(defs', cells'))
    /\ line' = Append(SubSeq(line, 1, cursor - 1), Len(batches'))
    /\ cursor' = cursor + 1

Undo ==
    /\ UndoLastBatch
    /\ cursor' = cursor - 1
    /\ UNCHANGED <<versions, line>>

Redo ==
    /\ undone # <<>>
    /\ \A k \in Applied : k < undone[Len(undone)]
    /\ RedoLastBatch
    /\ cursor' = cursor + 1
    /\ UNCHANGED <<versions, line>>

ENext == Edit \/ Undo \/ Redo

ESpec == EInit /\ [][ENext]_evars

History == INSTANCE EditHistory WITH
    Document <- [defs : [Field -> Def \cup {None}],
                 cells : [Record -> [Field -> Cell]]],
    document <- Shown

-----------------------------------------------------------------------------
\* Undo and redo of field and cell edits show exactly the versions the edits
\* made: a conversion that loses cells, a delete that takes a column away, a
\* new field, each is taken back and made again with all its cells, though
\* its op restores whole rows and only those that had a cell.
WalksFieldHistory == History!Spec

\* No mix of conversions, changed choices, edits, undos and redos leaves a
\* cell that the type of its field does not show: lists stand in multiple
\* selects, texts in the others.
CellsFitType ==
    \A f \in Active, r \in Record : Fits(cells[r][f], defs[f].type)
=============================================================================
