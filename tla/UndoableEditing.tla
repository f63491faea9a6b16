--------------------------- MODULE UndoableEditing ---------------------------
(***************************************************************************)
(* RecordStore as an editor uses it who                                    *)
(*   - edits live records only, and through the logged calls (no trash     *)
(*     restore, formula run or permanent delete: none of them is logged),  *)
(*   - does not redo a batch that was undone before a newer edit.          *)
(* The repository enforces neither.  Under these two habits its log walks  *)
(* the versions of the document exactly as EditHistory promises.           *)
(*                                                                         *)
(* versions and line are history variables: the versions on the line and   *)
(* the batch that leads from each of them to the next.                     *)
(***************************************************************************)
EXTENDS RecordStore

VARIABLES versions, line, cursor

uvars == <<vars, versions, line, cursor>>

\* What the grid shows: the cells of the live records.
ShownIn(st, fs) == [r \in Record |-> IF st[r] = "live" THEN fs[r] ELSE None]
Shown == ShownIn(status, fields)

UInit ==
    /\ Init
    /\ versions = <<Shown>>
    /\ line = <<>>
    /\ cursor = 1

Edit ==
    /\ \/ \E r \in Record :
            \/ \E cells \in Content : CreateRecord(r, cells)
            \/ /\ status[r] = "live"
               /\ \/ \E patch \in Patches : UpdateRecord(r, patch)
                  \/ DeleteRecord(r)
       \/ \E s, t \in Table : DuplicateTable(s, t)
    /\ versions' = Append(SubSeq(versions, 1, cursor), ShownIn(status', fields'))
    /\ line' = Append(SubSeq(line, 1, cursor - 1), Len(batches) + 1)
    /\ cursor' = cursor + 1

Undo ==
    /\ UndoLastBatch
    /\ cursor' = cursor - 1
    /\ UNCHANGED <<versions, line>>

Redo ==
    /\ undone # <<>>
    /\ \A k \in Applied : k < undone[Len(undone)]
    /\ RedoLastBatch
    /\ cursor' = cursor + 1
    /\ UNCHANGED <<versions, line>>

\* Calls that leave the grid and the log alone.
Aside ==
    /\ \/ \E t \in Table : RebuildSearchIndex(t)
       \/ \E r \in Record : CreateComment(r) \/ DeleteLastComment(r)
    /\ UNCHANGED <<versions, line, cursor>>

UNext == Edit \/ Undo \/ Redo \/ Aside

USpec == UInit /\ [][UNext]_uvars

History == INSTANCE EditHistory WITH
    Document <- [Record -> Image],
    document <- Shown

-----------------------------------------------------------------------------
\* Undo and redo show exactly the versions the edits made: whatever the mix
\* of creates, updates, deletes, table copies, undos and redos, the grid is
\* the version the cursor stands on, undo takes it to the version before the
\* last edit that is in force, and redo to the one after.
WalksEditHistory == History!Spec
=============================================================================
