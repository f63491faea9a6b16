------------------------------ MODULE FieldStore ------------------------------
(***************************************************************************)
(* The fields of one table (mochi_field) in repository.mjs, with what      *)
(* their calls change beside them: the cells of the live records, the      *)
(* columnMeta of the views, and the operation log that undoes both.        *)
(*                                                                         *)
(* A field op is logged with a snapshot of the field, of the whole rows    *)
(* that have a cell of it, and of the columnMeta of every view.            *)
(*                                                                         *)
(* Records are live throughout (RecordStore has the rest of their life).   *)
(* Of the field types those are kept whose conversions lose or keep cells  *)
(* in an interesting way: text and the two selects.                        *)
(***************************************************************************)
EXTENDS Naturals, Sequences, FiniteSets

CONSTANTS
    Field, Record, View,
    Primary,        \* the fields with is_primary
    Type,           \* the field types used
    Choice,         \* texts that may be offered as choices of a select
    Other, Empty,   \* any other text, and ''
    Null,           \* JSON null
    NoKey,          \* the row has no cell of the field
    None,           \* no such row; a field without options
    Keep,           \* no such key in a patch
    Written,        \* cells that clients write
    Offered,        \* options that clients give a field
    MaxBatches,     \* bound on the rows of mochi_op_batch
    MaxUnlogged     \* bound on the fields with a change that has no op

Select == {"singleSelect", "multipleSelect"}
Text == Choice \cup {Other, Empty}
Scalar == Text \cup {Null, NoKey}
Cell == Scalar \cup SUBSET (Choice \cup {Other})    \* the others are lists
IsList(v) == v \notin Scalar
Options == (SUBSET Choice) \cup {None}
Def == [type : Type, choices : Options, deleted : BOOLEAN]

\* The second and third conjunct say that JSON tells a list from a text and
\* from null, and a row without a cell from one with a cell.
ASSUME FieldStoreAssumption ==
    /\ Primary \subseteq Field
    /\ \A list \in SUBSET (Choice \cup {Other}) : list \notin Scalar
    /\ NoKey \notin Text \cup {Null}
    /\ None \notin Def
    /\ "singleLineText" \in Type /\ Type \subseteq {"singleLineText"} \cup Select
    /\ Written \subseteq Cell \ {NoKey}
    /\ Offered \subseteq Options
    /\ MaxBatches \in Nat /\ MaxUnlogged \in Nat

VARIABLES
    defs,       \* rows of mochi_field
    cells,      \* fields_json of each record
    views,      \* views that are not deleted
    meta,       \* fields named in a view's columnMeta, None before there is one
    batches,    \* the log: before and after image of each batch
    undone,     \* undone batches, in undone_time order
    unlogged    \* history: fields with a change that has no op

vars == <<defs, cells, views, meta, batches, undone, unlogged>>

Active == {f \in Field : defs[f] # None /\ ~defs[f].deleted}

\* Mutant of Deletable: is_primary is not looked at.
DeletableAny == Active
Deletable == Active \ Primary

\* Mutant of Snapshot: the field's deleted_time is left out.
SnapshotUndeleted(f) ==
    [defs |-> [x \in {f} |-> [defs[f] EXCEPT !.deleted = FALSE]],
     rows |-> [r \in {s \in Record : cells[s][f] # NoKey} |-> cells[r]],
     metas |-> [v \in views |-> meta[v]]]

\* Mutant of Snapshot: rows with a value for rows with a cell.
SnapshotValues(f) ==
    [defs |-> [x \in {f} |-> defs[f]],
     rows |-> [r \in {s \in Record : cells[s][f] \notin {NoKey, Null}} |-> cells[r]],
     metas |-> [v \in views |-> meta[v]]]

\* An image says what undo or redo writes back: some fields, some rows, and
\* the columnMeta of some views.
Snapshot(f) ==
    [defs |-> [x \in {f} |-> defs[f]],
     rows |-> [r \in {s \in Record : cells[s][f] # NoKey} |-> cells[r]],
     metas |-> [v \in views |-> meta[v]]]

RowImage(r, row) == [defs |-> <<>>, rows |-> [x \in {r} |-> row], metas |-> <<>>]

Over(g, f) == [x \in DOMAIN f |-> IF x \in DOMAIN g THEN g[x] ELSE f[x]]

Restore(image) ==
    /\ defs' = Over(image.defs, defs)
    /\ cells' = Over(image.rows, cells)
    /\ meta' = Over(image.metas, meta)

Undone == {undone[i] : i \in DOMAIN undone}
Applied == DOMAIN batches \ Undone

Log(before, after) ==
    /\ Len(batches) < MaxBatches
    /\ batches' = Append(batches, [before |-> before, after |-> after])

\* insertFieldOp is a second transaction: the change stays without it when
\* the process dies in between (or the caller sets skipHistory).
LogFieldOp(f, before, after) ==
    \/ Log(before, after) /\ UNCHANGED unlogged
    \/ /\ Cardinality(unlogged \cup {f}) <= MaxUnlogged
       /\ unlogged' = unlogged \cup {f}
       /\ UNCHANGED batches

-----------------------------------------------------------------------------
\* Mutant of AsText: the value is not converted.
AsItIs(v) == v

\* String(value), for a text or a list.
AsText(v) ==
    IF ~IsList(v) THEN v
    ELSE IF v = {} THEN Empty
    ELSE IF Cardinality(v) = 1 THEN CHOOSE x \in v : TRUE
    ELSE Other

\* Mutant of ConvertValue: Array.isArray is not asked before a value is wrapped.
WrapAnyValue(v, type) ==
    IF v \in {NoKey, Null} THEN v
    ELSE IF v = Empty THEN Null
    ELSE CASE type = "singleLineText" -> AsText(v)
           [] type = "singleSelect" -> IF IsList(v) THEN Empty ELSE v
           [] type = "multipleSelect" -> {v}

\* convertValue.  A list has no title, name or id, so a singleSelect gets ''.
ConvertValue(v, type) ==
    IF v \in {NoKey, Null} THEN v
    ELSE IF v = Empty THEN Null
    ELSE CASE type = "singleLineText" -> AsText(v)
           [] type = "singleSelect" -> IF IsList(v) THEN Empty ELSE v
           [] type = "multipleSelect" -> IF IsList(v) THEN v ELSE {v}

SanitizeSelectValue(v, type, choices) ==
    IF v \in {NoKey, Null} THEN v
    ELSE IF type = "singleSelect" THEN IF v \in choices THEN v ELSE Null
    ELSE IF IsList(v) THEN v \cap choices ELSE {}

\* getSelectChoiceNames.
ChoiceNames(options) == IF options = None THEN {} ELSE options

\* The patch of updateField; the type may be the present one.
Patch == [type : Type, options : Offered \cup {Keep}]

NewOptions(f, patch) ==
    IF patch.options = Keep THEN defs[f].choices ELSE patch.options

CleansUp(f, patch) ==
    /\ patch.options # Keep
    /\ patch.type \in Select
    /\ patch.options # defs[f].choices

\* The rows are read before the transaction, once for the conversion and
\* once for the cleanup, and a row the cleanup changes is written last: over
\* the conversion.
UpdatedCell(f, patch, v) ==
    LET converted == IF patch.type # defs[f].type
                     THEN ConvertValue(v, patch.type) ELSE v
        cleaned == SanitizeSelectValue(v, patch.type, ChoiceNames(NewOptions(f, patch)))
    IN IF CleansUp(f, patch) /\ cleaned # v THEN cleaned ELSE converted

-----------------------------------------------------------------------------
\* A table with its primary field, its rows still empty, and no view yet.
Init ==
    /\ defs = [f \in Field |->
                IF f \in Primary
                THEN [type |-> "singleLineText", choices |-> None, deleted |-> FALSE]
                ELSE None]
    /\ cells = [r \in Record |-> [f \in Field |-> NoKey]]
    /\ views = {}
    /\ meta = [v \in View |-> None]
    /\ batches = <<>>
    /\ undone = <<>>
    /\ unlogged = {}

\* Undoing a create restores the image taken after it, views included, and
\* then deletes the field.
CreateField(f, type, options) ==
    /\ defs[f] = None
    /\ defs' = [defs EXCEPT ![f] =
                    [type |-> type, choices |-> options, deleted |-> FALSE]]
    /\ UNCHANGED <<cells, views, meta, undone>>
    /\ LET after == Snapshot(f)'
       IN LogFieldOp(f, [after EXCEPT !.defs[f].deleted = TRUE], after)

UpdateField(f, patch) ==
    /\ f \in Active
    /\ defs' = [defs EXCEPT ![f].type = patch.type,
                            ![f].choices = NewOptions(f, patch)]
    /\ cells' = [r \in Record |->
                    [cells[r] EXCEPT ![f] = UpdatedCell(f, patch, @)]]
    /\ UNCHANGED <<views, meta, undone>>
    /\ LogFieldOp(f, Snapshot(f), Snapshot(f)')

DeleteField(f) ==
    /\ f \in Deletable
    /\ defs' = [defs EXCEPT ![f].deleted = TRUE]
    /\ cells' = [r \in Record |-> [cells[r] EXCEPT ![f] = NoKey]]
    /\ meta' = [v \in View |-> IF v \in views THEN meta[v] \ {f} ELSE meta[v]]
    /\ UNCHANGED <<views, undone>>
    /\ LET before == Snapshot(f)
           rows == [r \in DOMAIN before.rows |->
                        [before.rows[r] EXCEPT ![f] = NoKey]]
       IN LogFieldOp(f, before, [Snapshot(f)' EXCEPT !.rows = rows])

\* updateRecord of one cell.
UpdateRecord(r, f, v) ==
    LET row == [cells[r] EXCEPT ![f] = v]
    IN /\ cells' = [cells EXCEPT ![r] = row]
       /\ Log(RowImage(r, cells[r]), RowImage(r, row))
       /\ UNCHANGED <<defs, views, meta, undone, unlogged>>

\* Views are not logged, and updated and deleted also when they are deleted.
\* Clients send the columnMeta of fields they see.
CreateView(v, columns) ==
    /\ meta[v] = None
    /\ columns \subseteq Active
    /\ views' = views \cup {v}
    /\ meta' = [meta EXCEPT ![v] = columns]
    /\ UNCHANGED <<defs, cells, batches, undone, unlogged>>

UpdateView(v, columns) ==
    /\ meta[v] # None
    /\ columns \subseteq Active
    /\ meta' = [meta EXCEPT ![v] = columns]
    /\ UNCHANGED <<defs, cells, views, batches, undone, unlogged>>

DeleteView(v) ==
    /\ meta[v] # None
    /\ views' = views \ {v}
    /\ UNCHANGED <<defs, cells, meta, batches, undone, unlogged>>

UndoLastBatch ==
    \E k \in Applied :
        /\ \A j \in Applied : j <= k
        /\ Restore(batches[k].before)
        /\ undone' = Append(undone, k)
        /\ UNCHANGED <<views, batches, unlogged>>

RedoLastBatch ==
    /\ undone # <<>>
    /\ Restore(batches[undone[Len(undone)]].after)
    /\ undone' = SubSeq(undone, 1, Len(undone) - 1)
    /\ UNCHANGED <<views, batches, unlogged>>

EditField(f) ==
    \/ \E type \in Type, options \in Offered : CreateField(f, type, options)
    \/ \E patch \in Patch : UpdateField(f, patch)
    \/ DeleteField(f)

EditView(v) ==
    \/ \E columns \in SUBSET Field : CreateView(v, columns) \/ UpdateView(v, columns)
    \/ DeleteView(v)

Next ==
    \/ \E f \in Field : EditField(f)
    \/ \E r \in Record, f \in Active : \E v \in Written : UpdateRecord(r, f, v)
    \/ \E v \in View : EditView(v)
    \/ UndoLastBatch
    \/ RedoLastBatch

Spec == Init /\ [][Next]_vars

-----------------------------------------------------------------------------
\* Type invariant: fields, rows and views.
TypeOK ==
    /\ defs \in [Field -> Def \cup {None}]
    /\ cells \in [Record -> [Field -> Cell]]
    /\ views \in SUBSET View
    /\ meta \in [View -> (SUBSET Field) \cup {None}]
    /\ undone \in Seq(DOMAIN batches)
    /\ unlogged \in SUBSET Field

\* A deleted field is never lost with its cells: undo can still reach an op
\* that deleted it, or redo an op that created it, unless the process died
\* before the field's op was logged.
DeletedFieldRecoverable ==
    \A f \in Field \ unlogged : defs[f] # None /\ defs[f].deleted =>
        \/ \E k \in Applied :
            f \in DOMAIN batches[k].after.defs /\ batches[k].after.defs[f].deleted
        \/ \E k \in Undone :
            f \in DOMAIN batches[k].before.defs /\ batches[k].before.defs[f].deleted

\* A table never loses its primary field, nor does any field turn into one
\* without a row: not by a delete, nor by undo and redo in any order.
PrimaryActive == Primary \subseteq Active

\* packages/mochi-sqlite/examples/verify/field-conversion.verify.mjs converts
\* texts and lists to a select and wants the converted value, and takes
\* choices away and wants the values that are still offered: so a conversion
\* to a select that offers what a cell converts to keeps it.
ConversionKeepsChoices ==
    [][\A f \in Active, patch \in Patch :
        patch.type # defs[f].type /\ UpdateField(f, patch) =>
            \A r \in Record :
                LET v == ConvertValue(cells[r][f], patch.type)
                    offered == ChoiceNames(defs'[f].choices)
                IN (v \in offered \/ (IsList(v) /\ v # {} /\ v \subseteq offered)) =>
                        cells'[r][f] = v]_vars
=============================================================================
