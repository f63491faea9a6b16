----------------------------- MODULE RecordStore -----------------------------
(***************************************************************************)
(* The record rows of packages/mochi-sqlite/src/repository.mjs together    *)
(* with everything a record call writes in the same transaction: the       *)
(* full-text index (mochi_record_fts), the operation log (mochi_op_batch,  *)
(* mochi_op), the trash, the comments and the field history.               *)
(*                                                                         *)
(* One backend process owns the database here: the repository is           *)
(* synchronous (spawnSync), so a call that returns is one step.  Calls     *)
(* that fail half way are the subject of SqliteCli.                        *)
(*                                                                         *)
(* A call may name any record: the HTTP routes pass the id of the request  *)
(* on, so records that are deleted, or whose table is gone, are reachable. *)
(***************************************************************************)
EXTENDS Naturals, Sequences, FiniteSets

CONSTANTS
    Table,          \* ids of tables
    Record,         \* ids of records, each handed out once by ids.record()
    TableOf,        \* [Record -> Table], mochi_record.table_id
    Field,          \* ids of fields
    Value,          \* cell values
    Resolve(_),     \* what resolveFormulas makes of a row's cells
    LookUp(_, _, _), \* what resolveLookupRollup of a table makes of them and all rows
    None,           \* SQL NULL: no cells, no index row, no before/after image
    Astray,         \* what a search of a record's own table finds of such a row: nothing
    MaxBatches,     \* bound on the rows of mochi_op_batch
    MaxCommented    \* bound on the records that have comments

\* fields_json (and order_json, always read and written beside it).
Content == [Field -> Value]

ASSUME RecordStoreAssumption ==
    /\ TableOf \in [Record -> Table]
    /\ None \notin Content /\ Astray \notin Content \cup {None}
    /\ \A c \in Content :
        /\ Resolve(c) \in Content
        /\ \A t \in Table, rows \in [Record -> Content \cup {None}] :
            LookUp(t, c, rows) \in Content
    /\ MaxBatches \in Nat /\ MaxCommented \in Nat

VARIABLES
    status,     \* of a record id: never used, live, soft-deleted, row removed
    fields,     \* cells of the row, also while it is soft-deleted
    fts,        \* content of the record's index row, None without one; Astray when a
                \* call named another table and the row was filed there, where a
                \* rebuild or purge of that table may have removed it since
    trash,      \* rows of mochi_trash with their snapshots
    batches,    \* mochi_op_batch in created_time order; a batch maps each
                \* record it touched to the op's before and after image
    undone,     \* batches with an undone_time, in undone_time order
    commented,  \* records with a comment that is not deleted
    history,    \* fields of a record with a mochi_record_history row
    purged      \* tables whose row permanentDeleteTable has removed

vars == <<status, fields, fts, trash, batches, undone, commented, history,
          purged>>

Status == {"absent", "live", "deleted", "purged"}
Image == Content \cup {None}
IndexRow == Image \cup {Astray}
Change == [before : Image, after : Image]
Batch == UNION {[S -> Change] : S \in SUBSET Record}
TrashRow == [id : Nat, record : Record, fields : Content]

Exists(r) == status[r] \in {"live", "deleted"}
RecordsOf(t) == {r \in Record : TableOf[r] = t}
Live(t) == {r \in RecordsOf(t) : status[r] = "live"}

\* Batches with undone_time IS NULL, and the others.
Undone == {undone[i] : i \in DOMAIN undone}
Applied == DOMAIN batches \ Undone

\* f with the values of the partial function g put over it.
Over(g, f) == [x \in DOMAIN f |-> IF x \in DOMAIN g THEN g[x] ELSE f[x]]

Merge(cells, patch) ==
    [f \in Field |-> IF f \in DOMAIN patch THEN patch[f] ELSE cells[f]]
Patches == UNION {[S -> Value] : S \in (SUBSET Field) \ {{}}}

-----------------------------------------------------------------------------
Init ==
    /\ status = [r \in Record |-> "absent"]
    /\ fields = [r \in Record |-> None]
    /\ fts = [r \in Record |-> None]
    /\ trash = {}
    /\ batches = <<>>
    /\ undone = <<>>
    /\ commented = {}
    /\ history = [r \in Record |-> {}]
    /\ purged = {}

\* Undo and redo restore, per record, an image of the log: cells bring the
\* row back and index it again, None soft-deletes it, keeps its cells and
\* removes its index row.
Restore(image) ==
    LET written == {r \in DOMAIN image : image[r] # None}
    IN /\ status' = Over([r \in DOMAIN image |->
                            IF r \in written THEN "live" ELSE "deleted"], status)
       /\ fields' = Over([r \in written |-> image[r]], fields)
       /\ fts' = Over(image, fts)

Log(batch) ==
    /\ Len(batches) < MaxBatches
    /\ batches' = Append(batches, batch)

CreateRecord(r, cells) ==
    /\ status[r] = "absent"
    /\ Restore([x \in {r} |-> cells])
    /\ Log([x \in {r} |-> [before |-> None, after |-> cells]])
    /\ UNCHANGED <<trash, undone, commented, history, purged>>

\* No test of deleted_time: a soft-deleted row is patched, logged and put
\* back into the index, and stays deleted.
UpdateRecord(r, patch) ==
    LET next == Merge(fields[r], patch)
    IN /\ Exists(r)
       /\ fields' = [fields EXCEPT ![r] = next]
       /\ fts' = [fts EXCEPT ![r] = next]
       /\ Log([x \in {r} |-> [before |-> fields[r], after |-> next]])
       /\ history' = [history EXCEPT ![r] =
                        @ \cup {f \in Field : next[f] # fields[r][f]}]
       /\ UNCHANGED <<status, trash, undone, commented, purged>>

\* Mutant of DeleteRecord: an id without a row is not turned away.
DeleteUnchecked(r) ==
    /\ commented' = commented \ {r}
    /\ status' = [status EXCEPT ![r] = "deleted"]
    /\ trash' = trash \cup
            {[id |-> Len(batches) + 1, record |-> r, fields |-> fields[r]]}
    /\ Log([x \in {r} |-> [before |-> fields[r], after |-> None]])
    /\ fts' = [fts EXCEPT ![r] = None]
    /\ UNCHANGED <<fields, undone, history, purged>>

\* Also without a test of deleted_time: a second delete adds a trash row.
\* The trash row is named by the batch written in the same transaction.
DeleteRecord(r) ==
    /\ Exists(r)
    /\ commented' = commented \ {r}
    /\ status' = [status EXCEPT ![r] = "deleted"]
    /\ trash' = trash \cup
            {[id |-> Len(batches) + 1, record |-> r, fields |-> fields[r]]}
    /\ Log([x \in {r} |-> [before |-> fields[r], after |-> None]])
    /\ fts' = [fts EXCEPT ![r] = None]
    /\ UNCHANGED <<fields, undone, history, purged>>

\* The log, the other trash rows and the comments are left alone.  The
\* index row is written whether or not the UPDATE found a record.
RestoreTrash(t) ==
    LET r == t.record
    IN /\ status' = IF Exists(r) THEN [status EXCEPT ![r] = "live"] ELSE status
       /\ fields' = IF Exists(r) THEN [fields EXCEPT ![r] = t.fields] ELSE fields
       /\ fts' = [fts EXCEPT ![r] = t.fields]
       /\ trash' = trash \ {t}
       /\ UNCHANGED <<batches, undone, commented, history, purged>>

\* What DELETE ... WHERE table_id = ... leaves of the index rows of a table's rows.
Unfiled(rows) == [r \in rows |-> IF fts[r] = Astray THEN Astray ELSE None]

RebuildSearchIndex(t) ==
    /\ fts' = Over([r \in Live(t) |-> fields[r]], Over(Unfiled(RecordsOf(t)), fts))
    /\ UNCHANGED <<status, fields, trash, batches, undone, commented, history, purged>>

\* Mutant of Rewrite: the rows are rewritten and not indexed.
RewriteUnindexed(next, index) ==
    /\ DOMAIN next # {}
    /\ fields' = Over(next, fields)
    /\ UNCHANGED <<status, fts, trash, batches, undone, commented, history, purged>>

\* Rows whose computed cells are out of date are rewritten and indexed, with
\* no op and no history.
Rewrite(next, index) ==
    /\ DOMAIN next # {}
    /\ fields' = Over(next, fields)
    /\ fts' = Over(index, fts)
    /\ UNCHANGED <<status, trash, batches, undone, commented, history, purged>>

\* scope is a table's live rows or one named record, which getRecord returns
\* deleted or not, as it does the rows a lookup reads.  A formula run looks at
\* the table of the record it names.
ResolveFormulas(scope) ==
    LET next == [r \in {x \in scope : Resolve(fields[x]) # fields[x]} |->
                    Resolve(fields[r])]
    IN Rewrite(next, next)

\* A lookup run does not: a record of another table gets the lookups of t, and
\* its index row is filed under t.
ResolveLookupRollup(t, scope) ==
    LET next == [r \in {x \in scope : LookUp(t, fields[x], fields) # fields[x]} |->
                    LookUp(t, fields[r], fields)]
    IN Rewrite(next, [r \in DOMAIN next |-> IF TableOf[r] = t THEN next[r] ELSE Astray])

\* Every live record of s is created once in the new table t, all in one
\* batch.
DuplicateTable(s, t) ==
    /\ s \notin purged /\ t \notin purged
    /\ \A r \in RecordsOf(t) : status[r] = "absent"
    /\ Live(s) # {}
    /\ \E copies \in SUBSET RecordsOf(t) : \E origin \in [copies -> Live(s)] :
        /\ Cardinality(copies) = Cardinality(Live(s))
        /\ {origin[r] : r \in copies} = Live(s)
        /\ Restore([r \in copies |-> fields[origin[r]]])
        /\ Log([r \in copies |-> [before |-> None, after |-> fields[origin[r]]]])
    /\ UNCHANGED <<trash, undone, commented, history, purged>>

\* Rows, index rows, ops, comments and history of the table go; its batches
\* stay behind empty, and so do the trash rows of its records.
PermanentDeleteTable(t) ==
    LET gone == RecordsOf(t)
    IN /\ t \notin purged
       /\ purged' = purged \cup {t}
       /\ status' = Over([r \in {x \in gone : Exists(x)} |-> "purged"], status)
       /\ fields' = Over([r \in gone |-> None], fields)
       /\ fts' = Over(Unfiled(gone), fts)
       /\ batches' = [k \in DOMAIN batches |->
                        [r \in DOMAIN batches[k] \ gone |-> batches[k][r]]]
       /\ commented' = commented \ gone
       /\ history' = Over([r \in gone |-> {}], history)
       /\ UNCHANGED <<trash, undone>>

\* Mutant of UndoLastBatch: the oldest batch, ORDER BY created_time ASC.
UndoFirstBatch ==
    \E k \in Applied :
        /\ \A j \in Applied : k <= j
        /\ Restore([r \in DOMAIN batches[k] |-> batches[k][r].before])
        /\ undone' = Append(undone, k)
        /\ UNCHANGED <<trash, batches, commented, history, purged>>

\* The newest batch that is not undone, whatever table it touched.
UndoLastBatch ==
    \E k \in Applied :
        /\ \A j \in Applied : j <= k
        /\ Restore([r \in DOMAIN batches[k] |-> batches[k][r].before])
        /\ undone' = Append(undone, k)
        /\ UNCHANGED <<trash, batches, commented, history, purged>>

\* Mutant of RedoLastBatch: undone_time is reset without WHERE id = ...
RedoMarksAll ==
    /\ undone # <<>>
    /\ LET b == batches[undone[Len(undone)]]
       IN Restore([r \in DOMAIN b |-> b[r].after])
    /\ undone' = <<>>
    /\ UNCHANGED <<trash, batches, commented, history, purged>>

\* The batch undone last.  No edit ever takes a batch out of reach of redo.
RedoLastBatch ==
    /\ undone # <<>>
    /\ LET b == batches[undone[Len(undone)]]
       IN Restore([r \in DOMAIN b |-> b[r].after])
    /\ undone' = SubSeq(undone, 1, Len(undone) - 1)
    /\ UNCHANGED <<trash, batches, commented, history, purged>>

\* createComment does not look the record up.
CreateComment(r) ==
    /\ Cardinality(commented \cup {r}) <= MaxCommented
    /\ commented' = commented \cup {r}
    /\ UNCHANGED <<status, fields, fts, trash, batches, undone, history, purged>>

DeleteLastComment(r) ==
    /\ r \in commented
    /\ commented' = commented \ {r}
    /\ UNCHANGED <<status, fields, fts, trash, batches, undone, history, purged>>

EditRecord(r) ==
    \/ \E cells \in Content : CreateRecord(r, cells)
    \/ \E patch \in Patches : UpdateRecord(r, patch)
    \/ DeleteRecord(r)

Next ==
    \/ \E r \in Record :
        \/ EditRecord(r)
        \/ Exists(r) /\ ResolveFormulas({r})
        \/ \E t \in Table : Exists(r) /\ ResolveLookupRollup(t, {r})
        \/ CreateComment(r)
        \/ DeleteLastComment(r)
    \/ \E t \in trash : RestoreTrash(t)
    \/ \E t \in Table :
        \/ RebuildSearchIndex(t)
        \/ ResolveFormulas(Live(t))
        \/ ResolveLookupRollup(t, Live(t))
        \/ PermanentDeleteTable(t)
    \/ \E s, t \in Table : DuplicateTable(s, t)
    \/ UndoLastBatch
    \/ RedoLastBatch

Spec == Init /\ [][Next]_vars

-----------------------------------------------------------------------------
\* Type invariant: the rows, index rows and log entries have the shapes the
\* schema and the JSON columns give them.
TypeOK ==
    /\ status \in [Record -> Status]
    /\ fields \in [Record -> Image]
    /\ fts \in [Record -> IndexRow]
    /\ trash \in SUBSET TrashRow
    /\ batches \in Seq(Batch)
    /\ undone \in Seq(DOMAIN batches)
    /\ commented \in SUBSET Record
    /\ history \in [Record -> SUBSET Field]
    /\ purged \in SUBSET Table

\* A live record is found by a search for what it holds now: no sequence of
\* edits, undos, redos, restores, table copies and formula runs leaves its
\* index row missing or behind the row.  A soft-deleted record that still has
\* an index row (an update after the delete wrote it) is indexed as it is too.
\* A lookup run that names a record of another table, and nothing else, takes
\* the record out of its own table's search until it is indexed again.
IndexCurrent ==
    \A r \in Record :
        /\ status[r] = "live" => fts[r] \in {fields[r], Astray}
        /\ status[r] = "deleted" => fts[r] \in {None, fields[r], Astray}

\* No record is lost to the user: a soft-deleted record always has the op
\* that deleted it among the batches undo can still reach, or the op that
\* created it among those redo can.  The trash alone does not give that:
\* redoing a delete writes no trash row.
DeletedRecoverable ==
    \A r \in Record : status[r] = "deleted" =>
        \/ \E k \in Applied :
            r \in DOMAIN batches[k] /\ batches[k][r].after = None
        \/ \E k \in Undone :
            r \in DOMAIN batches[k] /\ batches[k][r].before = None
=============================================================================
