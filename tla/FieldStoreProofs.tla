--------------------------- MODULE FieldStoreProofs ---------------------------
(***************************************************************************)
(* For any fields, records, views and cells, whatever is converted,        *)
(* deleted, undone and redone: the table keeps its primary field, and a    *)
(* deleted field stays within reach of undo or redo; and an editor who     *)
(* keeps to the habits of FieldEditing is shown the versions made, with    *)
(* cells that fit their fields.                                            *)
(***************************************************************************)
EXTENDS FieldEditing, EditLine

Partial(S, T) == UNION {[D -> T] : D \in SUBSET S}

Image == [defs : Partial(Field, Def),
          rows : Partial(Record, [Field -> Cell]),
          metas : Partial(View, SUBSET Field)]

Batch == [before : Image, after : Image]

\* Undo and redo of a batch write the same fields, and delete no primary one.
Agrees(b) ==
    /\ DOMAIN b.before.defs = DOMAIN b.after.defs
    /\ \A f \in Primary : f \in DOMAIN b.before.defs =>
        ~b.before.defs[f].deleted /\ ~b.after.defs[f].deleted

\* A batch is undone once until it is redone.
UndoneOnce ==
    \A i, j \in DOMAIN undone : undone[i] = undone[j] => i = j

\* A view that is shown has a columnMeta, which a snapshot can take.
ViewsHaveMeta == \A v \in views : meta[v] \in SUBSET Field

LogInv ==
    /\ batches \in Seq(Batch)
    /\ \A k \in DOMAIN batches : Agrees(batches[k])
    /\ undone \in Seq(DOMAIN batches)
    /\ UndoneOnce

IInv ==
    /\ TypeOK
    /\ ViewsHaveMeta
    /\ LogInv
    /\ DeletedFieldRecoverable
    /\ PrimaryActive

\* Undo or redo reaches an op that leaves f deleted.
Reached(f) ==
    \/ \E k \in Applied :
        f \in DOMAIN batches[k].after.defs /\ batches[k].after.defs[f].deleted
    \/ \E k \in Undone :
        f \in DOMAIN batches[k].before.defs /\ batches[k].before.defs[f].deleted

-----------------------------------------------------------------------------
(***************************************************************************)
(* Images.                                                                 *)
(***************************************************************************)
LEMMA PartialFacts ==
    ASSUME NEW S, NEW T, NEW g \in Partial(S, T)
    PROVE  DOMAIN g \subseteq S /\ \A x \in DOMAIN g : g[x] \in T
BY DEF Partial

LEMMA PartialIntro ==
    ASSUME NEW S, NEW T, NEW D \in SUBSET S, NEW g \in [D -> T]
    PROVE  g \in Partial(S, T)
BY DEF Partial

\* What undo and redo write.
LEMMA RestoreFacts ==
    ASSUME TypeOK, NEW image \in Image, Restore(image)
    PROVE  /\ defs' \in [Field -> Def \cup {None}]
           /\ cells' \in [Record -> [Field -> Cell]]
           /\ meta' \in [View -> (SUBSET Field) \cup {None}]
           /\ \A f \in Field : defs'[f] = IF f \in DOMAIN image.defs THEN image.defs[f] ELSE defs[f]
           /\ \A f \in DOMAIN image.defs : f \in Field /\ image.defs[f] \in Def
           /\ \A v \in View : meta'[v] \in SUBSET Field \/ meta'[v] = meta[v]
<1>1. /\ image.defs \in Partial(Field, Def)
      /\ image.rows \in Partial(Record, [Field -> Cell])
      /\ image.metas \in Partial(View, SUBSET Field)
    BY DEF Image
<1>2. /\ defs' = Over(image.defs, defs) /\ defs \in [Field -> Def \cup {None}]
      /\ cells' = Over(image.rows, cells) /\ cells \in [Record -> [Field -> Cell]]
      /\ meta' = Over(image.metas, meta) /\ meta \in [View -> (SUBSET Field) \cup {None}]
    BY DEF Restore, TypeOK
<1>3. /\ defs' \in [Field -> Def \cup {None}]
      /\ \A f \in Field : defs'[f] = IF f \in DOMAIN image.defs THEN image.defs[f] ELSE defs[f]
    <2> PICK g \in Partial(Field, Def) : g = image.defs
        BY <1>1
    <2>1. \A f \in DOMAIN g : g[f] \in Def
        BY PartialFacts
    <2>2. /\ Over(g, defs) \in [Field -> Def \cup {None}]
          /\ \A f \in Field : Over(g, defs)[f] = IF f \in DOMAIN g THEN g[f] ELSE defs[f]
        BY <1>2, <2>1 DEF Over
    <2> QED
        BY <1>2, <2>2
<1>4. cells' \in [Record -> [Field -> Cell]]
    BY <1>1, <1>2, PartialFacts DEF Over
<1>5. /\ meta' \in [View -> (SUBSET Field) \cup {None}]
      /\ \A v \in View : meta'[v] = IF v \in DOMAIN image.metas THEN image.metas[v] ELSE meta[v]
    <2> PICK g \in Partial(View, SUBSET Field) : g = image.metas
        BY <1>1
    <2>1. \A v \in DOMAIN g : g[v] \in SUBSET Field
        BY PartialFacts
    <2>2. /\ Over(g, meta) \in [View -> (SUBSET Field) \cup {None}]
          /\ \A v \in View : Over(g, meta)[v] = IF v \in DOMAIN g THEN g[v] ELSE meta[v]
        BY <1>2, <2>1 DEF Over
    <2> QED
        BY <1>2, <2>2
<1> QED
    BY <1>1, <1>3, <1>4, <1>5, PartialFacts

\* The image that fieldSnapshot takes of a field.
SnapshotIn(ds, cs, vs, ms, f) ==
    [defs |-> [x \in {f} |-> ds[f]],
     rows |-> [r \in {s \in Record : cs[s][f] # NoKey} |-> cs[r]],
     metas |-> [v \in vs |-> ms[v]]]

Snapshotted(ds, cs, vs, ms, f) ==
    /\ cs \in [Record -> [Field -> Cell]]
    /\ vs \in SUBSET View
    /\ \A v \in vs : ms[v] \in SUBSET Field
    /\ f \in Field
    /\ ds[f] \in Def

IsImageOf(s, f, d) == s \in Image /\ DOMAIN s.defs = {f} /\ s.defs[f] = d

LEMMA SnapshotType ==
    ASSUME NEW ds, NEW cs, NEW vs, NEW ms, NEW f, Snapshotted(ds, cs, vs, ms, f)
    PROVE  IsImageOf(SnapshotIn(ds, cs, vs, ms, f), f, ds[f])
<1> USE DEF Snapshotted
<1> DEFINE a == [x \in {f} |-> ds[f]]
           b == [r \in {q \in Record : cs[q][f] # NoKey} |-> cs[r]]
           c == [v \in vs |-> ms[v]]
<1>1. a \in Partial(Field, Def) /\ DOMAIN a = {f} /\ a[f] = ds[f]
    BY PartialIntro
<1>2. b \in Partial(Record, [Field -> Cell])
    <2>1. b \in [{q \in Record : cs[q][f] # NoKey} -> [Field -> Cell]]
        OBVIOUS
    <2> QED
        BY <2>1, PartialIntro
<1>3. c \in Partial(View, SUBSET Field)
    BY PartialIntro
<1> HIDE DEF a, b, c
<1>4. SnapshotIn(ds, cs, vs, ms, f) = [defs |-> a, rows |-> b, metas |-> c]
    BY DEF SnapshotIn, a, b, c
<1> QED
    BY <1>1, <1>2, <1>3, <1>4 DEF Image, IsImageOf

LEMMA SnapshotNow ==
    ASSUME TypeOK, ViewsHaveMeta, NEW f \in Field, defs[f] \in Def,
           NEW s, s = Snapshot(f)
    PROVE  s \in Image /\ DOMAIN s.defs = {f} /\ s.defs[f] = defs[f]
<1> PICK ds, cs, vs, ms : ds = defs /\ cs = cells /\ vs = views /\ ms = meta
    OBVIOUS
<1>1. s = SnapshotIn(ds, cs, vs, ms, f)
    BY DEF Snapshot, SnapshotIn
<1>2. Snapshotted(ds, cs, vs, ms, f)
    BY DEF TypeOK, ViewsHaveMeta, Snapshotted
<1>3. IsImageOf(s, f, ds[f])
    BY ONLY <1>1, <1>2, SnapshotType
<1> QED
    BY <1>3 DEF IsImageOf

LEMMA SnapshotNext ==
    ASSUME cells' \in [Record -> [Field -> Cell]], views' \in SUBSET View,
           \A v \in views' : meta'[v] \in SUBSET Field,
           NEW f \in Field, defs'[f] \in Def, NEW s, s = Snapshot(f)'
    PROVE  s \in Image /\ DOMAIN s.defs = {f} /\ s.defs[f] = defs'[f]
<1> PICK ds, cs, vs, ms : ds = defs' /\ cs = cells' /\ vs = views' /\ ms = meta'
    OBVIOUS
<1>1. s = SnapshotIn(ds, cs, vs, ms, f)
    BY DEF Snapshot, SnapshotIn
<1>2. Snapshotted(ds, cs, vs, ms, f)
    BY DEF Snapshotted
<1>3. IsImageOf(s, f, ds[f])
    BY ONLY <1>1, <1>2, SnapshotType
<1> QED
    BY <1>3 DEF IsImageOf

LEMMA RowImageType ==
    ASSUME NEW r \in Record, NEW row \in [Field -> Cell]
    PROVE  RowImage(r, row) \in Image /\ DOMAIN RowImage(r, row).defs = {}
<1> DEFINE none == <<>>
           b == [x \in {r} |-> row]
<1>1. none \in [{} -> Def] /\ none \in [{} -> SUBSET Field] /\ DOMAIN none = {}
    OBVIOUS
<1>2. b \in Partial(Record, [Field -> Cell])
    BY PartialIntro
<1>3. none \in Partial(Field, Def) /\ none \in Partial(View, SUBSET Field)
    BY <1>1, PartialIntro
<1> HIDE DEF none, b
<1>4. RowImage(r, row) = [defs |-> none, rows |-> b, metas |-> none]
    BY DEF RowImage, none, b
<1> QED
    BY <1>1, <1>2, <1>3, <1>4 DEF Image

-----------------------------------------------------------------------------
(***************************************************************************)
(* The log.                                                                *)
(***************************************************************************)
\* A call adds one applied batch and leaves the rest of the log alone.
LEMMA LogFacts ==
    ASSUME LogInv, NEW before \in Image, NEW after \in Image, Log(before, after),
           Agrees([before |-> before, after |-> after]), undone' = undone
    PROVE  /\ LogInv'
           /\ \A f \in Field : Reached(f) => Reached(f)'
           /\ \A f \in Field :
                f \in DOMAIN after.defs /\ after.defs[f].deleted => Reached(f)'
<1> DEFINE n == Len(batches) + 1
<1> PICK b : b = [before |-> before, after |-> after]
    OBVIOUS
<1>0. b \in Batch /\ Agrees(b) /\ b.after = after
    BY DEF Batch
<1>1. batches' = Append(batches, b)
    BY DEF Log
<1>2. /\ batches' \in Seq(Batch) /\ batches \in Seq(Batch)
      /\ DOMAIN batches = 1..Len(batches)
      /\ DOMAIN batches' = DOMAIN batches \cup {n}
      /\ n \notin DOMAIN batches
      /\ \A k \in DOMAIN batches : batches'[k] = batches[k]
      /\ batches'[n] = b
    BY <1>0, <1>1 DEF LogInv
<1> HIDE DEF n
<1>3. Undone' = Undone /\ Undone \subseteq DOMAIN batches
    BY DEF Undone, LogInv
<1>4. Applied' = Applied \cup {n} /\ Applied \subseteq DOMAIN batches
    BY <1>2, <1>3 DEF Applied
<1>5. LogInv'
    <2>1. \A k \in DOMAIN batches' : Agrees(batches'[k])
        BY <1>0, <1>2 DEF LogInv
    <2>2. undone' \in Seq(DOMAIN batches')
        BY <1>2 DEF LogInv
    <2>3. UndoneOnce'
        BY DEF LogInv, UndoneOnce
    <2>4. (\A k \in DOMAIN batches : Agrees(batches[k]))'
        BY <2>1 DEF Agrees
    <2> QED
        BY <1>2, <2>2, <2>3, <2>4 DEF LogInv
<1>6. ASSUME NEW f \in Field, Reached(f) PROVE Reached(f)'
    BY <1>2, <1>3, <1>4, <1>6 DEF Reached
<1>7. ASSUME NEW f \in Field, f \in DOMAIN after.defs, after.defs[f].deleted
      PROVE  Reached(f)'
    BY <1>0, <1>2, <1>4, <1>7 DEF Reached
<1> QED
    BY <1>5, <1>6, <1>7

LEMMA SameLog ==
    ASSUME LogInv, batches' = batches, undone' = undone
    PROVE  LogInv' /\ \A f \in Field : Reached(f) => Reached(f)'
<1>1. LogInv'
    BY DEF LogInv, Agrees, UndoneOnce
<1>2. Applied' = Applied /\ Undone' = Undone
    BY DEF Applied, Undone
<1> QED
    BY <1>1, <1>2 DEF Reached

\* Recoverable, put with Reached.
LEMMA Recoverable ==
    /\ DeletedFieldRecoverable <=>
        \A f \in Field \ unlogged : defs[f] # None /\ defs[f].deleted => Reached(f)
    /\ DeletedFieldRecoverable' <=>
        \A f \in Field \ unlogged' : defs'[f] # None /\ defs'[f].deleted => Reached(f)'
BY DEF DeletedFieldRecoverable, Reached

\* A call on field f: whatever becomes of its op, the log's part of the invariant holds.
LEMMA FieldCall ==
    ASSUME IInv, NEW f \in Field, NEW before \in Image, NEW after \in Image,
           LogFieldOp(f, before, after), undone' = undone,
           DOMAIN before.defs = {f}, DOMAIN after.defs = {f},
           f \in Primary => ~before.defs[f].deleted /\ ~after.defs[f].deleted,
           \A g \in Field \ {f} : defs'[g] = defs[g],
           defs'[f].deleted => after.defs[f].deleted
    PROVE  LogInv' /\ DeletedFieldRecoverable' /\ unlogged' \in SUBSET Field
<1>1. LogInv /\ DeletedFieldRecoverable /\ unlogged \in SUBSET Field
    BY DEF IInv, TypeOK
<1>2. CASE Log(before, after) /\ UNCHANGED unlogged
    <2>1. Agrees([before |-> before, after |-> after])
        BY DEF Agrees
    <2>2. /\ LogInv'
          /\ \A g \in Field : Reached(g) => Reached(g)'
          /\ after.defs[f].deleted => Reached(f)'
        BY <1>1, <1>2, <2>1, LogFacts
    <2>3. DeletedFieldRecoverable'
        BY <1>1, <1>2, <2>2, Recoverable
    <2> QED
        BY <1>1, <1>2, <2>2, <2>3
<1>3. CASE unlogged' = unlogged \cup {f} /\ UNCHANGED batches
    <2>1. LogInv' /\ \A g \in Field : Reached(g) => Reached(g)'
        BY <1>1, <1>3, SameLog
    <2>2. DeletedFieldRecoverable'
        BY <1>1, <1>3, <2>1, Recoverable
    <2> QED
        BY <1>1, <1>3, <2>1, <2>2
<1> QED
    BY <1>2, <1>3 DEF LogFieldOp

-----------------------------------------------------------------------------
(***************************************************************************)
(* Cells.                                                                  *)
(***************************************************************************)
LEMMA TextType ==
    ASSUME NEW v \in Cell
    PROVE  AsText(v) \in Cell
<1>1. CASE ~IsList(v) \/ v = {}
    BY <1>1 DEF AsText, Cell, Scalar, Text
<1>2. CASE IsList(v) /\ v # {}
    <2>1. v \in SUBSET (Choice \cup {Other})
        BY <1>2 DEF IsList, Cell
    <2> PICK x : x = CHOOSE y \in v : TRUE
        OBVIOUS
    <2>2. x \in v
        BY <1>2
    <2>3. x \in Cell /\ Other \in Cell
        BY <2>1, <2>2 DEF Cell, Scalar, Text
    <2> QED
        BY <1>2, <2>3 DEF AsText
<1> QED
    BY <1>1, <1>2

LEMMA ConvertType ==
    ASSUME NEW v \in Cell, NEW type \in Type
    PROVE  ConvertValue(v, type) \in Cell
<1>1. type \in {"singleLineText", "singleSelect", "multipleSelect"}
    BY FieldStoreAssumption DEF FieldStoreAssumption, Select
<1>2. Null \in Cell /\ Empty \in Cell
    BY DEF Cell, Scalar, Text
<1>3. CASE v \in {NoKey, Null, Empty}
    BY <1>2, <1>3 DEF ConvertValue
<1>4. CASE v \notin {NoKey, Null, Empty}
    <2>1. ~IsList(v) => {v} \in Cell
        BY <1>4 DEF IsList, Cell, Scalar, Text
    <2> QED
        BY <1>1, <1>2, <1>4, <2>1, TextType DEF ConvertValue
<1> QED
    BY <1>3, <1>4

LEMMA SanitizeType ==
    ASSUME NEW v \in Cell, NEW type, NEW choices \in SUBSET Choice
    PROVE  SanitizeSelectValue(v, type, choices) \in Cell
<1>1. Null \in Cell /\ {} \in Cell /\ v \cap choices \in Cell
    BY DEF Cell, Scalar
<1> QED
    BY <1>1 DEF SanitizeSelectValue

LEMMA OptionsType ==
    ASSUME TypeOK, NEW f \in Active, NEW patch \in Patch
    PROVE  NewOptions(f, patch) \in Options /\ ChoiceNames(NewOptions(f, patch)) \in SUBSET Choice
<1>1. defs[f].choices \in Options
    BY DEF Active, TypeOK, Def
<1>2. NewOptions(f, patch) \in Options
    BY <1>1, FieldStoreAssumption DEF FieldStoreAssumption, NewOptions, Patch
<1> QED
    BY <1>2 DEF Options, ChoiceNames

LEMMA UpdatedType ==
    ASSUME TypeOK, NEW f \in Active, NEW patch \in Patch, NEW v \in Cell
    PROVE  UpdatedCell(f, patch, v) \in Cell
<1> PICK type \in Type : type = patch.type
    BY DEF Patch
<1> PICK choices \in SUBSET Choice : choices = ChoiceNames(NewOptions(f, patch))
    BY OptionsType
<1>1. ConvertValue(v, type) \in Cell /\ SanitizeSelectValue(v, type, choices) \in Cell
    BY ConvertType, SanitizeType
<1> QED
    BY <1>1 DEF UpdatedCell

-----------------------------------------------------------------------------
(***************************************************************************)
(* The calls.                                                              *)
(***************************************************************************)
LEMMA InitIInv == Init => IInv
<1> SUFFICES ASSUME Init PROVE IInv
    OBVIOUS
<1>1. TypeOK
    <2> DEFINE d == [type |-> "singleLineText", choices |-> None, deleted |-> FALSE]
    <2>1. d \in Def
        BY FieldStoreAssumption DEF FieldStoreAssumption, Def, Options
    <2> HIDE DEF d
    <2>2. defs \in [Field -> Def \cup {None}]
        BY <2>1 DEF Init, d
    <2>3. NoKey \in Cell
        BY DEF Cell, Scalar
    <2>4. /\ cells \in [Record -> [Field -> Cell]]
          /\ views \in SUBSET View
          /\ meta \in [View -> (SUBSET Field) \cup {None}]
          /\ undone \in Seq(DOMAIN batches)
          /\ unlogged \in SUBSET Field
        BY <2>3 DEF Init
    <2> QED
        BY <2>2, <2>4 DEF TypeOK
<1>2. LogInv
    <2>1. batches = <<>> /\ undone = <<>> /\ DOMAIN batches = {} /\ DOMAIN undone = {}
        BY DEF Init
    <2> QED
        BY <2>1 DEF LogInv, UndoneOnce
<1>3. DeletedFieldRecoverable
    BY DEF Init, DeletedFieldRecoverable
<1>4. PrimaryActive
    <2> SUFFICES ASSUME NEW f \in Primary PROVE f \in Active
        BY DEF PrimaryActive
    <2> PICK d : d = [type |-> "singleLineText", choices |-> None, deleted |-> FALSE]
        OBVIOUS
    <2>1. f \in Field /\ defs[f] = d
        BY FieldStoreAssumption DEF FieldStoreAssumption, Init
    <2>2. d \in Def /\ ~d.deleted
        BY FieldStoreAssumption DEF FieldStoreAssumption, Def, Options
    <2> QED
        BY <2>1, <2>2, FieldStoreAssumption DEF FieldStoreAssumption, Active
<1> QED
    BY <1>1, <1>2, <1>3, <1>4 DEF IInv, ViewsHaveMeta, Init

\* A call on field f that keeps a definition of it: the image before is that of f, or
\* is the one after with the field deleted.
LEMMA CreateIInv ==
    ASSUME IInv, NEW f \in Field, NEW type \in Type, NEW options \in Offered,
           CreateField(f, type, options)
    PROVE  IInv'
<1> DEFINE d == [type |-> type, choices |-> options, deleted |-> FALSE]
<1>1. d \in Def /\ ~d.deleted
    BY FieldStoreAssumption DEF FieldStoreAssumption, Def
<1> HIDE DEF d
<1>2. /\ defs[f] = None /\ defs' = [defs EXCEPT ![f] = d]
      /\ UNCHANGED <<cells, views, meta, undone>>
    BY DEF CreateField, d
<1>3. /\ defs' \in [Field -> Def \cup {None}] /\ defs'[f] = d
      /\ \A g \in Field \ {f} : defs'[g] = defs[g]
    BY <1>1, <1>2 DEF IInv, TypeOK
<1>4. f \notin Primary
    BY <1>2 DEF IInv, PrimaryActive, Active
<1> PICK after : after = Snapshot(f)'
    OBVIOUS
<1>6. after \in Image /\ DOMAIN after.defs = {f} /\ after.defs[f] = d
    <2>1. /\ cells' \in [Record -> [Field -> Cell]] /\ views' \in SUBSET View
          /\ \A v \in views' : meta'[v] \in SUBSET Field
        BY <1>2 DEF IInv, TypeOK, ViewsHaveMeta
    <2> QED
        BY <1>1, <1>3, <2>1, SnapshotNext
<1> PICK before : before = [after EXCEPT !.defs[f].deleted = TRUE]
    OBVIOUS
<1>7. before \in Image /\ DOMAIN before.defs = {f}
    <2> DEFINE e == [d EXCEPT !.deleted = TRUE]
               g == [after.defs EXCEPT ![f] = e]
    <2>1. e \in Def
        BY <1>1 DEF Def
    <2>2. g \in [{f} -> Def]
        <3>1. after.defs \in [{f} -> Def]
            BY <1>1, <1>6 DEF Image, Partial
        <3> QED
            BY <2>1, <3>1
    <2>3. before = [after EXCEPT !.defs = g]
        BY <1>6
    <2> HIDE DEF g
    <2>4. g \in Partial(Field, Def)
        BY <2>2, PartialIntro
    <2> QED
        BY <1>6, <2>2, <2>3, <2>4 DEF Image
<1>8. LogFieldOp(f, before, after)
    BY DEF CreateField
<1>9. LogInv' /\ DeletedFieldRecoverable' /\ unlogged' \in SUBSET Field
    BY <1>1, <1>2, <1>3, <1>4, <1>6, <1>7, <1>8, FieldCall
<1>10. PrimaryActive'
    BY <1>3, <1>4, FieldStoreAssumption DEF FieldStoreAssumption, IInv, PrimaryActive, Active
<1> QED
    BY <1>2, <1>3, <1>9, <1>10 DEF IInv, TypeOK, ViewsHaveMeta, LogInv

LEMMA UpdateIInv ==
    ASSUME IInv, NEW f \in Field, NEW patch \in Patch, UpdateField(f, patch)
    PROVE  IInv'
<1>1. /\ f \in Active /\ TypeOK
      /\ defs' = [defs EXCEPT ![f] = [defs[f] EXCEPT !.type = patch.type, !.choices = NewOptions(f, patch)]]
      /\ cells' = [r \in Record |-> [cells[r] EXCEPT ![f] = UpdatedCell(f, patch, @)]]
      /\ UNCHANGED <<views, meta, undone>>
      /\ LogFieldOp(f, Snapshot(f), Snapshot(f)')
    <2>1. f \in Active /\ TypeOK /\ defs[f] \in Def
        BY DEF UpdateField, IInv, Active, TypeOK
    <2> QED
        BY <2>1 DEF UpdateField, TypeOK, Def
<1> PICK d : d = [defs[f] EXCEPT !.type = patch.type, !.choices = NewOptions(f, patch)]
    OBVIOUS
<1>2. defs[f] \in Def /\ ~defs[f].deleted
    BY <1>1 DEF Active, TypeOK
<1>3. d \in Def /\ ~d.deleted
    <2>1. patch.type \in Type /\ NewOptions(f, patch) \in Options
        BY <1>1, OptionsType DEF Patch
    <2> QED
        BY <1>2, <2>1 DEF Def
<1>4. /\ defs' \in [Field -> Def \cup {None}] /\ defs'[f] = d
      /\ \A g \in Field \ {f} : defs'[g] = defs[g]
    BY <1>1, <1>3 DEF TypeOK
<1>5. cells' \in [Record -> [Field -> Cell]]
    BY <1>1, UpdatedType DEF TypeOK
<1> PICK before : before = Snapshot(f)
    OBVIOUS
<1> PICK after : after = Snapshot(f)'
    OBVIOUS
<1>6. before \in Image /\ DOMAIN before.defs = {f} /\ before.defs[f] = defs[f]
    BY <1>1, <1>2, SnapshotNow DEF IInv
<1>7. after \in Image /\ DOMAIN after.defs = {f} /\ after.defs[f] = d
    <2>1. views' \in SUBSET View /\ \A v \in views' : meta'[v] \in SUBSET Field
        BY <1>1 DEF IInv, TypeOK, ViewsHaveMeta
    <2> QED
        BY <1>3, <1>4, <1>5, <2>1, SnapshotNext
<1>8. LogFieldOp(f, before, after)
    BY <1>1
<1>9. LogInv' /\ DeletedFieldRecoverable' /\ unlogged' \in SUBSET Field
    BY <1>1, <1>2, <1>3, <1>4, <1>6, <1>7, <1>8, FieldCall
<1>10. PrimaryActive'
    BY <1>3, <1>4, FieldStoreAssumption DEF FieldStoreAssumption, IInv, PrimaryActive, Active
<1> QED
    BY <1>1, <1>4, <1>5, <1>9, <1>10 DEF IInv, TypeOK, ViewsHaveMeta, LogInv

LEMMA DeleteIInv ==
    ASSUME IInv, NEW f \in Field, DeleteField(f)
    PROVE  IInv'
<1> PICK before : before = Snapshot(f)
    OBVIOUS
<1> DEFINE rows == [r \in DOMAIN before.rows |-> [before.rows[r] EXCEPT ![f] = NoKey]]
<1>1. /\ f \in Active /\ f \notin Primary /\ TypeOK /\ defs[f] \in Def
      /\ defs' = [defs EXCEPT ![f] = [defs[f] EXCEPT !.deleted = TRUE]]
      /\ cells' = [r \in Record |-> [cells[r] EXCEPT ![f] = NoKey]]
      /\ meta' = [v \in View |-> IF v \in views THEN meta[v] \ {f} ELSE meta[v]]
      /\ UNCHANGED <<views, undone>>
    <2>1. f \in Active /\ f \notin Primary /\ TypeOK /\ defs[f] \in Def
        BY DEF DeleteField, Deletable, IInv, Active, TypeOK
    <2> QED
        BY <2>1 DEF DeleteField, TypeOK, Def
<1> PICK d : d = [defs[f] EXCEPT !.deleted = TRUE]
    OBVIOUS
<1>2. d \in Def /\ d.deleted
    BY <1>1 DEF Def
<1>3. /\ defs' \in [Field -> Def \cup {None}] /\ defs'[f] = d
      /\ \A g \in Field \ {f} : defs'[g] = defs[g]
    BY <1>1, <1>2 DEF TypeOK
<1>4. cells' \in [Record -> [Field -> Cell]]
    <2>1. NoKey \in Cell
        BY DEF Cell, Scalar
    <2> QED
        BY <1>1, <2>1 DEF TypeOK
<1>5. /\ meta' \in [View -> (SUBSET Field) \cup {None}]
      /\ \A v \in views' : meta'[v] \in SUBSET Field
    BY <1>1 DEF IInv, ViewsHaveMeta, TypeOK
<1>6. before \in Image /\ DOMAIN before.defs = {f} /\ before.defs[f] = defs[f]
    BY <1>1, SnapshotNow DEF IInv
<1> PICK taken : taken = Snapshot(f)'
    OBVIOUS
<1>8. taken \in Image /\ DOMAIN taken.defs = {f} /\ taken.defs[f] = d
    <2>1. views' \in SUBSET View
        BY <1>1 DEF TypeOK
    <2> QED
        BY <1>2, <1>3, <1>4, <1>5, <2>1, SnapshotNext
<1>9. rows \in Partial(Record, [Field -> Cell])
    <2>1. before.rows \in Partial(Record, [Field -> Cell]) /\ NoKey \in Cell
        BY <1>6 DEF Image, Cell, Scalar
    <2>2. /\ DOMAIN before.rows \subseteq Record
          /\ \A r \in DOMAIN before.rows : before.rows[r] \in [Field -> Cell]
        BY <2>1, PartialFacts
    <2>3. rows \in [DOMAIN before.rows -> [Field -> Cell]]
        BY <2>1, <2>2
    <2> QED
        BY <2>2, <2>3, PartialIntro
<1>10. LogFieldOp(f, before, [taken EXCEPT !.rows = rows])
    BY DEF DeleteField
<1> HIDE DEF rows
<1> PICK after : after = [taken EXCEPT !.rows = rows]
    OBVIOUS
<1>11. after \in Image /\ DOMAIN after.defs = {f} /\ after.defs[f] = d
    BY <1>8, <1>9 DEF Image
<1>12. LogInv' /\ DeletedFieldRecoverable' /\ unlogged' \in SUBSET Field
    <2>1. LogFieldOp(f, before, after) /\ undone' = undone
        BY <1>1, <1>10
    <2>2. \A g \in Field \ {f} : defs'[g] = defs[g]
        BY <1>3
    <2>3. defs'[f].deleted => after.defs[f].deleted
        BY <1>2, <1>11
    <2> QED
        BY <1>1, <1>6, <1>11, <2>1, <2>2, <2>3, FieldCall
<1>13. PrimaryActive'
    BY <1>1, <1>3 DEF IInv, PrimaryActive, Active
<1> QED
    BY <1>1, <1>3, <1>4, <1>5, <1>12, <1>13 DEF IInv, TypeOK, ViewsHaveMeta, LogInv

LEMMA UpdateRecordIInv ==
    ASSUME IInv, NEW r \in Record, NEW f \in Active, NEW v \in Written,
           UpdateRecord(r, f, v)
    PROVE  IInv'
<1> PICK row : row = [cells[r] EXCEPT ![f] = v]
    OBVIOUS
<1> PICK now : now = cells[r]
    OBVIOUS
<1>1. /\ cells' = [cells EXCEPT ![r] = row]
      /\ Log(RowImage(r, now), RowImage(r, row))
      /\ UNCHANGED <<defs, views, meta, undone, unlogged>>
    BY DEF UpdateRecord
<1>2. now \in [Field -> Cell] /\ row \in [Field -> Cell]
    <2>1. v \in Cell /\ f \in Field
        BY FieldStoreAssumption DEF FieldStoreAssumption, Active
    <2> QED
        BY <2>1 DEF IInv, TypeOK
<1>3. cells' \in [Record -> [Field -> Cell]]
    BY <1>1, <1>2 DEF IInv, TypeOK
<1> PICK before : before = RowImage(r, now)
    OBVIOUS
<1> PICK after : after = RowImage(r, row)
    OBVIOUS
<1>4. /\ before \in Image /\ DOMAIN before.defs = {}
      /\ after \in Image /\ DOMAIN after.defs = {}
    BY <1>2, RowImageType
<1>5. Agrees([before |-> before, after |-> after])
    BY <1>4 DEF Agrees
<1>6. LogInv' /\ \A g \in Field : Reached(g) => Reached(g)'
    <2>1. LogInv /\ Log(before, after) /\ undone' = undone
        BY <1>1 DEF IInv
    <2> QED
        BY <1>4, <1>5, <2>1, LogFacts
<1>7. DeletedFieldRecoverable'
    BY <1>1, <1>6, Recoverable DEF IInv
<1> QED
    BY <1>1, <1>3, <1>6, <1>7
    DEF IInv, TypeOK, ViewsHaveMeta, LogInv, PrimaryActive, Active

\* The calls on views change the views only.
LEMMA ViewIInv ==
    ASSUME IInv, NEW v \in View, EditView(v)
    PROVE  IInv'
<1>1. /\ UNCHANGED <<defs, cells, batches, undone, unlogged>>
      /\ views' \in SUBSET View
      /\ meta' \in [View -> (SUBSET Field) \cup {None}]
      /\ ViewsHaveMeta'
    <2>1. Active \subseteq Field
        BY DEF Active
    <2>2. ASSUME NEW columns \in SUBSET Field, CreateView(v, columns)
          PROVE  <1>1!:
        BY <2>2 DEF CreateView, IInv, TypeOK, ViewsHaveMeta
    <2>3. ASSUME NEW columns \in SUBSET Field, UpdateView(v, columns)
          PROVE  <1>1!:
        BY <2>3 DEF UpdateView, IInv, TypeOK, ViewsHaveMeta
    <2>4. CASE DeleteView(v)
        BY <2>4 DEF DeleteView, IInv, TypeOK, ViewsHaveMeta
    <2> QED
        BY <2>2, <2>3, <2>4 DEF EditView
<1>2. LogInv' /\ \A g \in Field : Reached(g) => Reached(g)'
    BY <1>1, SameLog DEF IInv
<1>3. DeletedFieldRecoverable'
    BY <1>1, <1>2, Recoverable DEF IInv
<1> QED
    BY <1>1, <1>2, <1>3 DEF IInv, TypeOK, LogInv, PrimaryActive, Active

\* What is left for undo and redo, once the log has moved over batch k.
LEMMA Restored ==
    ASSUME IInv, NEW image \in Image, Restore(image),
           UNCHANGED <<views, batches, unlogged>>,
           LogInv',
           \A f \in Primary : f \in DOMAIN image.defs => ~image.defs[f].deleted,
           \A f \in Field : f \in DOMAIN image.defs =>
                (image.defs[f].deleted => Reached(f)'),
           \A f \in Field : f \notin DOMAIN image.defs =>
                (Reached(f) => Reached(f)')
    PROVE  IInv'
<1>1. /\ defs' \in [Field -> Def \cup {None}]
      /\ cells' \in [Record -> [Field -> Cell]]
      /\ meta' \in [View -> (SUBSET Field) \cup {None}]
      /\ \A f \in Field : defs'[f] = IF f \in DOMAIN image.defs THEN image.defs[f] ELSE defs[f]
      /\ \A f \in DOMAIN image.defs : f \in Field /\ image.defs[f] \in Def
      /\ \A v \in View : meta'[v] \in SUBSET Field \/ meta'[v] = meta[v]
    BY RestoreFacts DEF IInv
<1>2. ViewsHaveMeta'
    BY <1>1 DEF IInv, TypeOK, ViewsHaveMeta
<1>3. DeletedFieldRecoverable'
    <2> SUFFICES ASSUME NEW f \in Field \ unlogged, defs'[f] # None, defs'[f].deleted
                 PROVE  Reached(f)'
        BY Recoverable
    <2>1. CASE f \in DOMAIN image.defs
        BY <1>1, <2>1
    <2>2. CASE f \notin DOMAIN image.defs
        BY <1>1, <2>2, Recoverable DEF IInv
    <2> QED
        BY <2>1, <2>2
<1>4. PrimaryActive'
    <2> SUFFICES ASSUME NEW f \in Primary PROVE defs'[f] # None /\ ~defs'[f].deleted
        BY FieldStoreAssumption DEF FieldStoreAssumption, PrimaryActive, Active
    <2>1. f \in Field /\ defs[f] # None /\ ~defs[f].deleted
        BY DEF IInv, PrimaryActive, Active
    <2>2. None \notin Def
        BY FieldStoreAssumption DEF FieldStoreAssumption
    <2> QED
        BY <1>1, <2>1, <2>2
<1> QED
    BY <1>1, <1>2, <1>3, <1>4 DEF IInv, TypeOK, LogInv

\* undoLastBatch keeps it: redo reaches the batch from now on, and a field
\* its image deletes is one of a create that redo brings back.
LEMMA UndoIInv ==
    ASSUME IInv, UndoLastBatch
    PROVE  IInv'
<1>1. PICK k \in Applied :
        /\ Restore(batches[k].before)
        /\ undone' = Append(undone, k)
        /\ UNCHANGED <<views, batches, unlogged>>
    BY DEF UndoLastBatch
<1>2. k \in DOMAIN batches /\ k \notin Undone
    BY DEF Applied
<1> PICK b : b = batches[k]
    OBVIOUS
<1>3. b \in Batch /\ Agrees(b)
    BY <1>2 DEF IInv, LogInv
<1> PICK image : image = b.before
    OBVIOUS
<1>4. image \in Image
    BY <1>3 DEF Batch
<1>5. /\ undone' \in Seq(DOMAIN batches)
      /\ Undone' = Undone \cup {k}
      /\ UndoneOnce'
    <2>1. undone \in Seq(DOMAIN batches) /\ DOMAIN undone = 1 .. Len(undone)
        BY DEF IInv, LogInv
    <2>2. /\ undone' \in Seq(DOMAIN batches)
          /\ DOMAIN undone' = 1 .. (Len(undone) + 1)
          /\ \A i \in DOMAIN undone : undone'[i] = undone[i]
          /\ undone'[Len(undone) + 1] = k
        BY <1>1, <1>2, <2>1
    <2>3. Undone' = Undone \cup {k}
        BY <2>1, <2>2 DEF Undone
    <2>4. UndoneOnce'
        BY <1>2, <2>1, <2>2 DEF IInv, LogInv, Undone, UndoneOnce
    <2> QED
        BY <2>2, <2>3, <2>4
<1>6. LogInv'
    BY <1>1, <1>5 DEF IInv, LogInv, Agrees
<1>7. Applied' = Applied \ {k}
    BY <1>1, <1>5 DEF Applied
<1>8. ASSUME NEW f \in Field, f \in DOMAIN image.defs, image.defs[f].deleted
      PROVE  Reached(f)'
    BY <1>1, <1>5, <1>8 DEF Reached
<1>9. ASSUME NEW f \in Field, f \notin DOMAIN image.defs, Reached(f)
      PROVE  Reached(f)'
    <2>1. f \notin DOMAIN b.after.defs
        BY <1>3, <1>9 DEF Agrees
    <2> QED
        BY <1>1, <1>5, <1>7, <1>9, <2>1 DEF Reached
<1>10. \A f \in Primary : f \in DOMAIN image.defs => ~image.defs[f].deleted
    BY <1>3 DEF Agrees
<1>11. Restore(image) /\ UNCHANGED <<views, batches, unlogged>>
    BY <1>1
<1> QED
    BY <1>4, <1>6, <1>8, <1>9, <1>10, <1>11, Restored

\* redoLastBatch keeps it: undo reaches the batch from now on, and a field
\* its image deletes is one that the batch deleted.
LEMMA RedoIInv ==
    ASSUME IInv, RedoLastBatch
    PROVE  IInv'
<1> PICK k : k = undone[Len(undone)]
    OBVIOUS
<1>1. /\ undone # <<>>
      /\ Restore(batches[k].after)
      /\ undone' = SubSeq(undone, 1, Len(undone) - 1)
      /\ UNCHANGED <<views, batches, unlogged>>
    BY DEF RedoLastBatch
<1>2. /\ k \in DOMAIN batches /\ k \in Undone
      /\ undone' \in Seq(DOMAIN batches)
      /\ Undone' = Undone \ {k}
      /\ UndoneOnce'
    <2>1. /\ undone \in Seq(DOMAIN batches)
          /\ Len(undone) \in Nat \ {0}
          /\ DOMAIN undone = 1 .. Len(undone)
        BY <1>1 DEF IInv, LogInv
    <2>2. /\ undone' \in Seq(DOMAIN batches)
          /\ DOMAIN undone' = 1 .. (Len(undone) - 1)
          /\ \A i \in DOMAIN undone' : undone'[i] = undone[i]
        BY <1>1, <2>1
    <2>3. k \in DOMAIN batches /\ k \in Undone
        BY <2>1 DEF Undone
    <2>4. UndoneOnce'
        BY <2>1, <2>2 DEF IInv, LogInv, UndoneOnce
    <2>5. Undone' = Undone \ {k}
        <3>1. \A i \in DOMAIN undone : undone[i] = k <=> i = Len(undone)
            BY <2>1 DEF IInv, LogInv, UndoneOnce
        <3>2. \A i : i \in DOMAIN undone' <=> i \in DOMAIN undone /\ i # Len(undone)
            BY <2>1, <2>2
        <3> QED
            BY <2>2, <3>1, <3>2, Zenon DEF Undone
    <2> QED
        BY <2>2, <2>3, <2>4, <2>5
<1> PICK b : b = batches[k]
    OBVIOUS
<1>3. b \in Batch /\ Agrees(b)
    BY <1>2 DEF IInv, LogInv
<1> PICK image : image = b.after
    OBVIOUS
<1>4. image \in Image
    BY <1>3 DEF Batch
<1>6. LogInv'
    BY <1>1, <1>2 DEF IInv, LogInv, Agrees
<1>7. Applied' = Applied \cup {k}
    BY <1>1, <1>2 DEF Applied
<1>8. ASSUME NEW f \in Field, f \in DOMAIN image.defs, image.defs[f].deleted
      PROVE  Reached(f)'
    BY <1>1, <1>7, <1>8 DEF Reached
<1>9. ASSUME NEW f \in Field, f \notin DOMAIN image.defs, Reached(f)
      PROVE  Reached(f)'
    <2>1. f \notin DOMAIN b.before.defs
        BY <1>3, <1>9 DEF Agrees
    <2> QED
        BY <1>1, <1>2, <1>7, <1>9, <2>1 DEF Reached
<1>10. \A f \in Primary : f \in DOMAIN image.defs => ~image.defs[f].deleted
    BY <1>3 DEF Agrees
<1>11. Restore(image) /\ UNCHANGED <<views, batches, unlogged>>
    BY <1>1
<1> QED
    BY <1>4, <1>6, <1>8, <1>9, <1>10, <1>11, Restored

-----------------------------------------------------------------------------
\* Every step keeps the invariant.
LEMMA NextIInv == IInv /\ [Next]_vars => IInv'
<1> SUFFICES ASSUME IInv, [Next]_vars PROVE IInv'
    OBVIOUS
<1>1. CASE UNCHANGED vars
    <2>1. /\ UNCHANGED <<defs, cells, views, meta, unlogged>>
          /\ batches' = batches /\ undone' = undone
        BY <1>1 DEF vars
    <2>2. LogInv' /\ \A g \in Field : Reached(g) => Reached(g)'
        BY <2>1, SameLog DEF IInv
    <2>3. DeletedFieldRecoverable'
        BY <2>1, <2>2, Recoverable DEF IInv
    <2> QED
        BY <2>1, <2>2, <2>3 DEF IInv, TypeOK, LogInv, ViewsHaveMeta, PrimaryActive, Active
<1>2. ASSUME NEW f \in Field, EditField(f)
      PROVE  IInv'
    BY <1>2, CreateIInv, UpdateIInv, DeleteIInv DEF EditField
<1>3. ASSUME NEW r \in Record, NEW f \in Active, NEW v \in Written, UpdateRecord(r, f, v)
      PROVE  IInv'
    BY <1>3, UpdateRecordIInv
<1>4. ASSUME NEW v \in View, EditView(v)
      PROVE  IInv'
    BY <1>4, ViewIInv
<1>5. CASE UndoLastBatch
    BY <1>5, UndoIInv
<1>6. CASE RedoLastBatch
    BY <1>6, RedoIInv
<1> QED
    BY <1>1, <1>2, <1>3, <1>4, <1>5, <1>6 DEF Next

\* The fields, the views and the log satisfy the invariant in every reachable
\* state.
THEOREM Invariance == Spec => []IInv
<1> QED
    BY InitIInv, NextIInv, PTL DEF Spec

\* Whatever types a field is converted to and from, and whatever is undone
\* and redone, the rows hold fields, cells and columnMeta and nothing else.
THEOREM FieldsTyped == Spec => []TypeOK
<1>1. IInv => TypeOK
    BY DEF IInv
<1> QED
    BY <1>1, Invariance, PTL

\* deleteField with undoLastBatch and redoLastBatch: a deleted field whose
\* calls were all logged can be had again from the log, however often undo
\* and redo went back and forth over it.
THEOREM DeletedFieldsRecoverable == Spec => []DeletedFieldRecoverable
<1>1. IInv => DeletedFieldRecoverable
    BY DEF IInv
<1> QED
    BY <1>1, Invariance, PTL

\* The table keeps its primary field: deleteField refuses it, and no image in
\* the log deletes it when it is restored.
THEOREM PrimaryNeverLost == Spec => []PrimaryActive
<1>1. IInv => PrimaryActive
    BY DEF IInv
<1> QED
    BY <1>1, Invariance, PTL

-----------------------------------------------------------------------------
(***************************************************************************)
(* The editor.  A version of the table has a cell only where a field is    *)
(* shown, and one that fits it: then the rows of the log are enough to go  *)
(* from version to version.                                                *)
(***************************************************************************)
Grid ==
    {d \in [defs : [Field -> Def \cup {None}], cells : [Record -> [Field -> Cell]]] :
        \A f \in Field, r \in Record :
            IF d.defs[f] = None THEN d.cells[r][f] = NoKey
            ELSE Fits(d.cells[r][f], d.defs[f].type)}

\* The grid shows no deleted field.
ShownDef(d) == IF d # None /\ ~d.deleted THEN d ELSE None

\* Undoing b takes version w to v, and redoing it takes v to w.
Step(b, v, w) ==
    /\ \A f \in Field :
        IF f \in DOMAIN b.before.defs
        THEN v.defs[f] = ShownDef(b.before.defs[f]) /\ w.defs[f] = ShownDef(b.after.defs[f])
        ELSE v.defs[f] = w.defs[f]
    /\ \A r \in Record :
        v.cells[r] = IF r \in DOMAIN b.before.rows THEN b.before.rows[r] ELSE w.cells[r]
    /\ \A r \in Record :
        w.cells[r] = IF r \in DOMAIN b.after.rows THEN b.after.rows[r] ELSE v.cells[r]

StepsOf(bs) ==
    {t \in (DOMAIN bs) \X Grid \X Grid : Step(bs[t[1]], t[2], t[3])}

EInv ==
    /\ IInv
    /\ Walk(Len(batches), undone, line, cursor)
    /\ Leads(line, versions, Grid, StepsOf(batches))
    /\ versions[cursor] = Shown
    /\ Shown.cells = cells

\* Lists and texts are told apart, and both from no cell.
LEMMA CellKinds ==
    /\ \A list \in SUBSET (Choice \cup {Other}) : IsList(list) /\ list # NoKey
    /\ \A v \in Text \cup {Null} : ~IsList(v) /\ v # NoKey
    /\ ~IsList(NoKey)
    /\ \A v \in Cell : IsList(v) => v \in SUBSET (Choice \cup {Other})
    /\ \A v \in Cell : ~IsList(v) => v \in Text \cup {Null, NoKey}
    /\ Choice \subseteq Text /\ Other \in Text /\ Empty \in Text
<1>1. \A list \in SUBSET (Choice \cup {Other}) : list \notin Scalar
    BY FieldStoreAssumption DEF FieldStoreAssumption
<1>2. NoKey \notin Text \cup {Null}
    BY FieldStoreAssumption DEF FieldStoreAssumption
<1>3. Scalar = Text \cup {Null, NoKey}
    BY DEF Scalar
<1>4. Cell = Scalar \cup SUBSET (Choice \cup {Other})
    BY DEF Cell
<1>5. Choice \subseteq Text /\ Other \in Text /\ Empty \in Text
    BY DEF Text
<1>6. \A v : IsList(v) <=> v \notin Scalar
    BY DEF IsList
<1> QED
    BY ONLY <1>1, <1>2, <1>3, <1>4, <1>5, <1>6

\* What is not a list fits every field but a multiple select, a list only that.
LEMMA FitsKinds ==
    ASSUME NEW v, NEW type
    PROVE  /\ v \in {Null, NoKey} => Fits(v, type)
           /\ IsList(v) /\ type = "multipleSelect" => Fits(v, type)
           /\ ~IsList(v) /\ type # "multipleSelect" => Fits(v, type)
BY DEF Fits

\* String(value) is a text.
LEMMA TextOf ==
    ASSUME NEW v \in Cell, v # NoKey, v # Null
    PROVE  AsText(v) \in Text
<1>1. CASE ~IsList(v)
    BY <1>1, CellKinds DEF AsText
<1>2. CASE IsList(v) /\ v = {}
    BY <1>2, CellKinds DEF AsText
<1>3. CASE IsList(v) /\ v # {}
    <2>1. v \in SUBSET (Choice \cup {Other})
        BY <1>3, CellKinds
    <2> PICK x : x = CHOOSE y \in v : TRUE
        OBVIOUS
    <2>2. x \in v
        BY <1>3
    <2>3. x \in Text /\ Other \in Text
        BY <2>1, <2>2, CellKinds
    <2> QED
        BY <1>3, <2>3 DEF AsText
<1> QED
    BY <1>1, <1>2, <1>3

\* convertValue makes a value that fits the new type, and no cell of none.
LEMMA ConvertFits ==
    ASSUME NEW v \in Cell, NEW type \in Type
    PROVE  /\ Fits(ConvertValue(v, type), type)
           /\ ConvertValue(v, type) = NoKey <=> v = NoKey
<1>1. type \in {"singleLineText", "singleSelect", "multipleSelect"}
    BY FieldStoreAssumption DEF FieldStoreAssumption, Select
<1>2. CASE v \in {NoKey, Null}
    BY <1>2, FitsKinds DEF ConvertValue
<1>3. CASE v = Empty
    <2>1. Empty # NoKey /\ Null # NoKey /\ ConvertValue(v, type) = Null
        BY <1>3, CellKinds DEF ConvertValue
    <2> QED
        BY <1>3, <2>1, FitsKinds
<1>4. CASE v \notin {NoKey, Null, Empty}
    <2>1. CASE type = "singleLineText"
        <3>1. ConvertValue(v, type) = AsText(v)
            BY <1>4, <2>1 DEF ConvertValue
        <3>2. AsText(v) \in Text
            BY <1>4, TextOf
        <3>3. ~IsList(AsText(v)) /\ AsText(v) # NoKey
            BY <3>2, CellKinds
        <3> QED
            BY <1>4, <2>1, <3>1, <3>3, FitsKinds
    <2>2. CASE type = "singleSelect"
        <3>1. ConvertValue(v, type) = IF IsList(v) THEN Empty ELSE v
            BY <1>4, <2>2 DEF ConvertValue
        <3>2. ~IsList(Empty) /\ Empty # NoKey
            BY CellKinds
        <3> QED
            BY <1>4, <2>2, <3>1, <3>2, FitsKinds
    <2>3. CASE type = "multipleSelect"
        <3>1. ConvertValue(v, type) = IF IsList(v) THEN v ELSE {v}
            BY <1>4, <2>3 DEF ConvertValue
        <3>2. ~IsList(v) => {v} \in SUBSET (Choice \cup {Other})
            <4>1. ~IsList(v) => v \in Text
                BY <1>4, CellKinds
            <4> QED
                BY <1>4, <4>1 DEF Text
        <3>3. ~IsList(v) => IsList({v}) /\ {v} # NoKey
            BY <3>2, CellKinds
        <3> QED
            BY <1>4, <2>3, <3>1, <3>3, FitsKinds
    <2> QED
        BY <1>1, <2>1, <2>2, <2>3
<1> QED
    BY <1>2, <1>3, <1>4

\* sanitizeSelectValue too.
LEMMA SanitizeFits ==
    ASSUME NEW v \in Cell, NEW type \in Select, NEW choices \in SUBSET Choice
    PROVE  /\ Fits(SanitizeSelectValue(v, type, choices), type)
           /\ SanitizeSelectValue(v, type, choices) = NoKey <=> v = NoKey
<1> PICK s : s = SanitizeSelectValue(v, type, choices)
    OBVIOUS
<1>1. CASE v \in {NoKey, Null}
    BY <1>1, FitsKinds DEF SanitizeSelectValue
<1>2. CASE v \notin {NoKey, Null} /\ type = "singleSelect"
    <2>1. s = IF v \in choices THEN v ELSE Null
        BY <1>2 DEF SanitizeSelectValue
    <2>2. Null # NoKey /\ (v \in choices => ~IsList(v))
        BY CellKinds
    <2> QED
        BY <1>2, <2>1, <2>2, FitsKinds
<1>3. CASE v \notin {NoKey, Null} /\ type = "multipleSelect"
    <2>1. s = IF IsList(v) THEN v \cap choices ELSE {}
        BY <1>3 DEF SanitizeSelectValue
    <2>2. v \cap choices \in SUBSET (Choice \cup {Other}) /\ {} \in SUBSET (Choice \cup {Other})
        OBVIOUS
    <2>3. IsList(s) /\ s # NoKey
        BY <2>1, <2>2, CellKinds
    <2> QED
        BY <1>3, <2>3, FitsKinds
<1> QED
    BY <1>1, <1>2, <1>3 DEF Select

\* A cell that fits its field fits it after updateField, whatever the patch.
LEMMA UpdatedFits ==
    ASSUME TypeOK, NEW f \in Active, NEW patch \in Patch, NEW v \in Cell,
           Fits(v, defs[f].type)
    PROVE  /\ Fits(UpdatedCell(f, patch, v), patch.type)
           /\ UpdatedCell(f, patch, v) = NoKey <=> v = NoKey
<1> PICK type \in Type : type = patch.type
    BY DEF Patch
<1> PICK choices \in SUBSET Choice : choices = ChoiceNames(NewOptions(f, patch))
    BY OptionsType
<1> PICK converted : converted = IF type # defs[f].type THEN ConvertValue(v, type) ELSE v
    OBVIOUS
<1> PICK cleaned : cleaned = SanitizeSelectValue(v, type, choices)
    OBVIOUS
<1>1. UpdatedCell(f, patch, v) = IF CleansUp(f, patch) /\ cleaned # v THEN cleaned ELSE converted
    BY DEF UpdatedCell
<1>2. Fits(converted, type) /\ (converted = NoKey <=> v = NoKey)
    BY ConvertFits
<1>3. CleansUp(f, patch) => Fits(cleaned, type) /\ (cleaned = NoKey <=> v = NoKey)
    <2>1. CleansUp(f, patch) => type \in Select
        BY DEF CleansUp
    <2> QED
        BY <2>1, SanitizeFits
<1> QED
    BY <1>1, <1>2, <1>3

\* What the grid shows of fields and cells.
LEMMA ShownFacts ==
    ASSUME NEW ds \in [Field -> Def \cup {None}],
           NEW cs \in [Record -> [Field -> Cell]],
           NEW s, s = ShownIn(ds, cs)
    PROVE  /\ s \in [defs : [Field -> Def \cup {None}], cells : [Record -> [Field -> Cell]]]
           /\ \A f \in Field : s.defs[f] = ShownDef(ds[f])
           /\ \A f \in Field, r \in Record :
                s.cells[r][f] = IF s.defs[f] # None THEN cs[r][f] ELSE NoKey
<1> DEFINE shown == {f \in Field : ds[f] # None /\ ~ds[f].deleted}
           d == [f \in Field |-> IF f \in shown THEN ds[f] ELSE None]
           c == [r \in Record |-> [f \in Field |-> IF f \in shown THEN cs[r][f] ELSE NoKey]]
<1>1. s = [defs |-> d, cells |-> c]
    BY DEF ShownIn
<1>2. NoKey \in Cell
    BY DEF Cell, Scalar
<1>3. /\ d \in [Field -> Def \cup {None}]
      /\ \A f \in Field : d[f] = ShownDef(ds[f])
      /\ \A f \in Field : d[f] # None <=> f \in shown
    BY DEF ShownDef
<1>4. /\ c \in [Record -> [Field -> Cell]]
      /\ \A f \in Field, r \in Record : c[r][f] = IF f \in shown THEN cs[r][f] ELSE NoKey
    BY <1>2
<1> HIDE DEF shown, d, c
<1> QED
    BY <1>1, <1>3, <1>4

\* Rows that have cells in shown fields only are shown as they are.
LEMMA ShownWhole ==
    ASSUME NEW ds \in [Field -> Def \cup {None}],
           NEW cs \in [Record -> [Field -> Cell]],
           NEW s, s = ShownIn(ds, cs),
           \A f \in Field, r \in Record :
                IF ShownDef(ds[f]) = None THEN cs[r][f] = NoKey
                ELSE Fits(cs[r][f], ds[f].type)
    PROVE  s \in Grid /\ s.cells = cs
<1>1. /\ s \in [defs : [Field -> Def \cup {None}], cells : [Record -> [Field -> Cell]]]
      /\ \A f \in Field : s.defs[f] = ShownDef(ds[f])
      /\ \A f \in Field, r \in Record :
            s.cells[r][f] = IF s.defs[f] # None THEN cs[r][f] ELSE NoKey
    BY ShownFacts
<1>2. s.cells = cs
    <2>1. s.cells \in [Record -> [Field -> Cell]]
        BY <1>1
    <2>2. \A r \in Record : s.cells[r] = cs[r]
        <3> SUFFICES ASSUME NEW r \in Record PROVE s.cells[r] = cs[r]
            OBVIOUS
        <3>1. s.cells[r] \in [Field -> Cell] /\ cs[r] \in [Field -> Cell]
            BY <2>1
        <3>2. \A f \in Field : s.cells[r][f] = cs[r][f]
            BY <1>1
        <3> QED
            BY <3>1, <3>2
    <2> QED
        BY <2>1, <2>2
<1>3. ASSUME NEW f \in Field, NEW r \in Record
      PROVE  IF s.defs[f] = None THEN s.cells[r][f] = NoKey
             ELSE Fits(s.cells[r][f], s.defs[f].type)
    <2>1. ShownDef(ds[f]) # None => ShownDef(ds[f]) = ds[f]
        BY DEF ShownDef
    <2> QED
        BY <1>1, <1>2, <2>1
<1> QED
    BY <1>1, <1>2, <1>3 DEF Grid

\* A state with the fields and cells of a version shows that version.
LEMMA ShownIs ==
    ASSUME NEW ds \in [Field -> Def \cup {None}],
           NEW cs \in [Record -> [Field -> Cell]],
           NEW s, s = ShownIn(ds, cs), NEW v \in Grid,
           \A f \in Field : v.defs[f] = ShownDef(ds[f]),
           \A r \in Record : v.cells[r] = cs[r]
    PROVE  s = v /\ s.cells = cs
<1>1. v \in [defs : [Field -> Def \cup {None}], cells : [Record -> [Field -> Cell]]]
    BY DEF Grid
<1>2. s \in Grid /\ s.cells = cs
    <2>1. ASSUME NEW f \in Field, NEW r \in Record
          PROVE  IF ShownDef(ds[f]) = None THEN cs[r][f] = NoKey
                 ELSE Fits(cs[r][f], ds[f].type)
        <3>1. IF v.defs[f] = None THEN v.cells[r][f] = NoKey
              ELSE Fits(v.cells[r][f], v.defs[f].type)
            BY DEF Grid
        <3>2. ShownDef(ds[f]) # None => ShownDef(ds[f]) = ds[f]
            BY DEF ShownDef
        <3> QED
            BY <3>1, <3>2
    <2> QED
        BY <2>1, ShownWhole
<1>3. s.defs = v.defs
    <2>1. \A f \in Field : s.defs[f] = ShownDef(ds[f])
        BY ShownFacts
    <2>2. s.defs \in [Field -> Def \cup {None}] /\ v.defs \in [Field -> Def \cup {None}]
        BY <1>1, <1>2 DEF Grid
    <2> QED
        BY <2>1, <2>2
<1>4. v.cells = cs
    BY <1>1
<1>5. s \in [defs : [Field -> Def \cup {None}], cells : [Record -> [Field -> Cell]]]
    BY <1>2 DEF Grid
<1> QED
    BY <1>1, <1>2, <1>3, <1>4, <1>5

\* The images of a call on field f, with the rows R, from version v to w.
FieldChange(f, v, w, before, after, R) ==
    /\ DOMAIN before.defs = {f}
    /\ v.defs[f] = ShownDef(before.defs[f]) /\ w.defs[f] = ShownDef(after.defs[f])
    /\ \A g \in Field \ {f} : v.defs[g] = w.defs[g]
    /\ DOMAIN before.rows = R /\ DOMAIN after.rows = R
    /\ \A r \in R : before.rows[r] = v.cells[r] /\ after.rows[r] = w.cells[r]
    /\ \A r \in Record \ R : v.cells[r] = w.cells[r]

\* The batch of a call on a field leads from a version to the next when its
\* images hold the rows that differ.
LEMMA FieldStep ==
    ASSUME NEW f \in Field, NEW v, NEW w, NEW before, NEW after, NEW R,
           FieldChange(f, v, w, before, after, R)
    PROVE  Step([before |-> before, after |-> after], v, w)
<1> PICK b : b = [before |-> before, after |-> after]
    OBVIOUS
<1>1. b.before = before /\ b.after = after
    OBVIOUS
<1>2. Step(b, v, w)
    BY <1>1 DEF Step, FieldChange
<1> QED
    BY <1>2

\* What the log and the grid see of an editor's call.
Makes(b) ==
    /\ batches' = Append(batches, b)
    /\ undone' = undone
    /\ Step(b, Shown, Shown')
    /\ Shown' \in Grid
    /\ Shown'.cells = cells'

\* A field call that adds a batch adds its two images.
LEMMA LoggedOp ==
    ASSUME IInv, NEW f, NEW before, NEW after, LogFieldOp(f, before, after),
           Len(batches') = Len(batches) + 1
    PROVE  batches' = Append(batches, [before |-> before, after |-> after])
<1>1. Len(batches) \in Nat /\ Len(batches) # Len(batches) + 1
    BY DEF IInv, LogInv
<1> QED
    BY <1>1 DEF LogFieldOp, Log

\* The rows a snapshot takes.
LEMMA SnapshotRows ==
    ASSUME NEW f, NEW s, s = Snapshot(f)
    PROVE  /\ DOMAIN s.rows = {r \in Record : cells[r][f] # NoKey}
           /\ \A r \in DOMAIN s.rows : s.rows[r] = cells[r]
BY DEF Snapshot

LEMMA SnapshotRowsNext ==
    ASSUME NEW f, NEW s, s = Snapshot(f)'
    PROVE  /\ DOMAIN s.rows = {r \in Record : cells'[r][f] # NoKey}
           /\ \A r \in DOMAIN s.rows : s.rows[r] = cells'[r]
BY DEF Snapshot

\* The grid now, and what there is where no field is shown.
LEMMA GridNow ==
    ASSUME EInv
    PROVE  /\ Shown \in Grid
           /\ \A f \in Field : Shown.defs[f] = ShownDef(defs[f])
           /\ \A f \in Field, r \in Record :
                IF ShownDef(defs[f]) = None THEN cells[r][f] = NoKey
                ELSE Fits(cells[r][f], defs[f].type)
<1>1. versions \in Seq(Grid) /\ Len(versions) = Len(line) + 1
    BY DEF EInv, Leads
<1>2. cursor \in 1..(Len(line) + 1) /\ Len(line) \in Nat
    BY WalkTypes DEF EInv
<1>3. Shown \in Grid
    BY <1>1, <1>2 DEF EInv
<1> PICK ds, cs, s : ds = defs /\ cs = cells /\ s = Shown
    OBVIOUS
<1>4. ds \in [Field -> Def \cup {None}] /\ cs \in [Record -> [Field -> Cell]] /\ s = ShownIn(ds, cs)
    BY DEF EInv, IInv, TypeOK, Shown
<1>5. \A f \in Field : s.defs[f] = ShownDef(ds[f])
    BY <1>4, ShownFacts
<1>6. s \in Grid /\ s.cells = cs
    BY <1>3 DEF EInv
<1>7. ASSUME NEW f \in Field, NEW r \in Record
      PROVE  IF ShownDef(ds[f]) = None THEN cs[r][f] = NoKey
             ELSE Fits(cs[r][f], ds[f].type)
    <2>1. IF s.defs[f] = None THEN cs[r][f] = NoKey
          ELSE Fits(cs[r][f], s.defs[f].type)
        BY <1>6 DEF Grid
    <2>2. ShownDef(ds[f]) # None => ShownDef(ds[f]) = ds[f]
        BY DEF ShownDef
    <2> QED
        BY <1>5, <2>1, <2>2
<1> QED
    BY <1>3, <1>5, <1>7

\* The grid after a call, from the fields and cells it leaves.
LEMMA GridNext ==
    ASSUME TypeOK',
           \A f \in Field, r \in Record :
                IF ShownDef(defs'[f]) = None THEN cells'[r][f] = NoKey
                ELSE Fits(cells'[r][f], defs'[f].type)
    PROVE  /\ Shown' \in Grid /\ Shown'.cells = cells'
           /\ \A f \in Field : Shown'.defs[f] = ShownDef(defs'[f])
<1> PICK ds, cs, s : ds = defs' /\ cs = cells' /\ s = Shown'
    OBVIOUS
<1>1. ds \in [Field -> Def \cup {None}] /\ cs \in [Record -> [Field -> Cell]] /\ s = ShownIn(ds, cs)
    BY DEF TypeOK, Shown
<1>2. s \in Grid /\ s.cells = cs
    BY <1>1, ShownWhole
<1>3. \A f \in Field : s.defs[f] = ShownDef(ds[f])
    BY <1>1, ShownFacts
<1> QED
    BY <1>2, <1>3

\* A field is made without a cell, so its images need no rows.
LEMMA CreateMakes ==
    ASSUME EInv, IInv', NEW f \in Field, NEW type \in Type, NEW options \in Offered,
           CreateField(f, type, options), Len(batches') = Len(batches) + 1
    PROVE  \E b : Makes(b)
<1> PICK d : d = [type |-> type, choices |-> options, deleted |-> FALSE]
    OBVIOUS
<1>1. d \in Def /\ ~d.deleted /\ d # None
    <2>1. d \in Def /\ ~d.deleted
        BY FieldStoreAssumption DEF FieldStoreAssumption, Def
    <2> QED
        BY <2>1, FieldStoreAssumption DEF FieldStoreAssumption
<1>2. /\ defs[f] = None /\ defs' = [defs EXCEPT ![f] = d]
      /\ UNCHANGED <<cells, views, meta, undone>>
    BY DEF CreateField
<1>3. /\ defs'[f] = d
      /\ \A g \in Field \ {f} : defs'[g] = defs[g]
    BY <1>2 DEF EInv, IInv, TypeOK
<1>4. /\ Shown \in Grid /\ Shown.cells = cells
      /\ \A g \in Field : Shown.defs[g] = ShownDef(defs[g])
      /\ \A g \in Field, r \in Record :
            IF ShownDef(defs[g]) = None THEN cells[r][g] = NoKey
            ELSE Fits(cells[r][g], defs[g].type)
    BY GridNow DEF EInv
<1>5. \A r \in Record : cells[r][f] = NoKey
    BY <1>2, <1>4 DEF ShownDef
<1>6. /\ Shown' \in Grid /\ Shown'.cells = cells'
      /\ \A g \in Field : Shown'.defs[g] = ShownDef(defs'[g])
    <2>1. ASSUME NEW g \in Field, NEW r \in Record
          PROVE  IF ShownDef(defs'[g]) = None THEN cells'[r][g] = NoKey
                 ELSE Fits(cells'[r][g], defs'[g].type)
        <3>1. CASE g = f
            BY <1>2, <1>5, <3>1, FitsKinds
        <3>2. CASE g # f
            BY <1>2, <1>3, <1>4, <3>2
        <3> QED
            BY <3>1, <3>2
    <2> QED
        BY <2>1, GridNext DEF IInv
<1> PICK after : after = Snapshot(f)'
    OBVIOUS
<1> PICK before : before = [after EXCEPT !.defs[f].deleted = TRUE]
    OBVIOUS
<1>7. after \in Image /\ DOMAIN after.defs = {f} /\ after.defs[f] = d
    <2>1. /\ cells' \in [Record -> [Field -> Cell]] /\ views' \in SUBSET View
          /\ \A v \in views' : meta'[v] \in SUBSET Field
        BY <1>2 DEF EInv, IInv, TypeOK, ViewsHaveMeta
    <2> QED
        BY <1>1, <1>3, <2>1, SnapshotNext
<1>8. DOMAIN after.rows = {}
    BY <1>2, <1>5, SnapshotRowsNext
<1>9. DOMAIN before.defs = {f} /\ before.defs[f].deleted /\ before.rows = after.rows
    <2> PICK e : e = [d EXCEPT !.deleted = TRUE]
        OBVIOUS
    <2>1. e.deleted
        BY <1>1 DEF Def
    <2> PICK g : g = [after.defs EXCEPT ![f] = e]
        OBVIOUS
    <2>2. before = [after EXCEPT !.defs = g]
        BY <1>7
    <2>3. before.defs = g /\ before.rows = after.rows
        BY <1>7, <2>2 DEF Image
    <2>4. DOMAIN g = {f} /\ g[f] = e
        BY <1>7
    <2> QED
        BY <2>1, <2>3, <2>4
<1> PICK b : b = [before |-> before, after |-> after]
    OBVIOUS
<1>10. batches' = Append(batches, b)
    <2>1. LogFieldOp(f, before, after)
        BY DEF CreateField
    <2>2. IInv
        BY DEF EInv
    <2>3. batches' = Append(batches, [before |-> before, after |-> after])
        BY <2>1, <2>2, LoggedOp
    <2> QED
        BY <2>3
<1>11. Step(b, Shown, Shown')
    <2> PICK v, w : v = Shown /\ w = Shown'
        OBVIOUS
    <2>1. v.defs[f] = ShownDef(before.defs[f]) /\ w.defs[f] = ShownDef(after.defs[f])
        <3>1. ShownDef(None) = None /\ ShownDef(before.defs[f]) = None
            BY <1>9 DEF ShownDef
        <3>2. v.defs[f] = ShownDef(None)
            BY <1>2, <1>4
        <3>3. w.defs[f] = ShownDef(d)
            BY <1>3, <1>6
        <3> QED
            BY <1>7, <3>1, <3>2, <3>3
    <2>2. \A g \in Field \ {f} : v.defs[g] = w.defs[g]
        BY <1>3, <1>4, <1>6
    <2>3. \A r \in Record : v.cells[r] = w.cells[r]
        BY <1>2, <1>4, <1>6
    <2>4. DOMAIN before.rows = {}
        BY <1>8, <1>9
    <2>5. FieldChange(f, v, w, before, after, {})
        BY <1>7, <1>8, <1>9, <2>1, <2>2, <2>3, <2>4 DEF FieldChange
    <2>6. Step([before |-> before, after |-> after], v, w)
        BY <2>5, FieldStep
    <2> QED
        BY <2>6
<1>12. Makes(b)
    BY <1>2, <1>6, <1>10, <1>11 DEF Makes
<1> QED
    BY <1>12

\* A conversion changes only cells its images hold, and what it writes fits.
LEMMA UpdateMakes ==
    ASSUME EInv, IInv', NEW f \in Field, NEW patch \in Patch,
           UpdateField(f, patch), Len(batches') = Len(batches) + 1
    PROVE  \E b : Makes(b)
<1>1. /\ f \in Active /\ TypeOK
      /\ defs' = [defs EXCEPT ![f] = [defs[f] EXCEPT !.type = patch.type, !.choices = NewOptions(f, patch)]]
      /\ cells' = [r \in Record |-> [cells[r] EXCEPT ![f] = UpdatedCell(f, patch, @)]]
      /\ UNCHANGED <<views, meta, undone>>
      /\ LogFieldOp(f, Snapshot(f), Snapshot(f)')
    <2>1. f \in Active /\ TypeOK /\ defs[f] \in Def
        BY DEF UpdateField, EInv, IInv, Active, TypeOK
    <2> QED
        BY <2>1 DEF UpdateField, TypeOK, Def
<1> PICK d : d = [defs[f] EXCEPT !.type = patch.type, !.choices = NewOptions(f, patch)]
    OBVIOUS
<1>2. defs[f] \in Def /\ defs[f] # None /\ ~defs[f].deleted
    BY <1>1 DEF Active, TypeOK
<1>3. d \in Def /\ ~d.deleted /\ d.type = patch.type /\ d # None
    <2>1. patch.type \in Type /\ NewOptions(f, patch) \in Options
        BY <1>1, OptionsType DEF Patch
    <2>2. d \in Def /\ ~d.deleted /\ d.type = patch.type
        BY <1>2, <2>1 DEF Def
    <2> QED
        BY <2>2, FieldStoreAssumption DEF FieldStoreAssumption
<1>4. defs'[f] = d /\ \A g \in Field \ {f} : defs'[g] = defs[g]
    BY <1>1 DEF TypeOK
<1>5. /\ Shown \in Grid /\ Shown.cells = cells
      /\ \A g \in Field : Shown.defs[g] = ShownDef(defs[g])
      /\ \A g \in Field, r \in Record :
            IF ShownDef(defs[g]) = None THEN cells[r][g] = NoKey
            ELSE Fits(cells[r][g], defs[g].type)
    BY GridNow DEF EInv
<1>6. \A r \in Record :
        /\ Fits(cells[r][f], defs[f].type)
        /\ cells[r][f] \in Cell
    BY <1>1, <1>2, <1>5 DEF ShownDef, TypeOK
<1>7. \A r \in Record :
        /\ cells'[r][f] = UpdatedCell(f, patch, cells[r][f])
        /\ \A g \in Field \ {f} : cells'[r][g] = cells[r][g]
    BY <1>1 DEF TypeOK
<1>8. \A r \in Record :
        /\ Fits(cells'[r][f], patch.type)
        /\ cells'[r][f] = NoKey <=> cells[r][f] = NoKey
    <2> SUFFICES ASSUME NEW r \in Record
                 PROVE  /\ Fits(cells'[r][f], patch.type)
                        /\ cells'[r][f] = NoKey <=> cells[r][f] = NoKey
        OBVIOUS
    <2> PICK x \in Cell : x = cells[r][f]
        BY <1>6
    <2>1. Fits(x, defs[f].type)
        BY <1>6
    <2>2. /\ Fits(UpdatedCell(f, patch, x), patch.type)
          /\ UpdatedCell(f, patch, x) = NoKey <=> x = NoKey
        BY <1>1, <2>1, UpdatedFits
    <2> QED
        BY <1>7, <2>2
<1>9. /\ Shown' \in Grid /\ Shown'.cells = cells'
      /\ \A g \in Field : Shown'.defs[g] = ShownDef(defs'[g])
    <2>1. ASSUME NEW g \in Field, NEW r \in Record
          PROVE  IF ShownDef(defs'[g]) = None THEN cells'[r][g] = NoKey
                 ELSE Fits(cells'[r][g], defs'[g].type)
        <3>1. CASE g = f
            BY <1>3, <1>4, <1>8, <3>1 DEF ShownDef
        <3>2. CASE g # f
            BY <1>4, <1>5, <1>7, <3>2
        <3> QED
            BY <3>1, <3>2
    <2> QED
        BY <2>1, GridNext DEF IInv
<1> PICK before : before = Snapshot(f)
    OBVIOUS
<1> PICK after : after = Snapshot(f)'
    OBVIOUS
<1>10. DOMAIN before.defs = {f} /\ before.defs[f] = defs[f]
    BY <1>1, <1>2, SnapshotNow DEF EInv, IInv
<1>11. DOMAIN after.defs = {f} /\ after.defs[f] = d
    <2>1. /\ cells' \in [Record -> [Field -> Cell]] /\ views' \in SUBSET View
          /\ \A v \in views' : meta'[v] \in SUBSET Field
        BY <1>1 DEF EInv, IInv, TypeOK, ViewsHaveMeta
    <2> QED
        BY <1>3, <1>4, <2>1, SnapshotNext
<1> PICK R : R = {r \in Record : cells[r][f] # NoKey}
    OBVIOUS
<1>12. /\ DOMAIN before.rows = R
       /\ \A r \in R : before.rows[r] = cells[r]
    BY SnapshotRows
<1>13. /\ DOMAIN after.rows = R
       /\ \A r \in R : after.rows[r] = cells'[r]
    <2>1. {r \in Record : cells'[r][f] # NoKey} = R
        BY <1>8
    <2> QED
        BY <2>1, SnapshotRowsNext
<1>14. \A r \in Record \ R : cells'[r] = cells[r]
    <2> SUFFICES ASSUME NEW r \in Record \ R PROVE cells'[r] = cells[r]
        OBVIOUS
    <2>1. cells'[r] \in [Field -> Cell] /\ cells[r] \in [Field -> Cell]
        BY DEF EInv, IInv, TypeOK
    <2>2. \A g \in Field : cells'[r][g] = cells[r][g]
        BY <1>7, <1>8
    <2> QED
        BY <2>1, <2>2
<1> PICK b : b = [before |-> before, after |-> after]
    OBVIOUS
<1>15. batches' = Append(batches, b)
    BY <1>1, LoggedOp DEF EInv
<1>16. Step(b, Shown, Shown')
    <2> PICK v, w : v = Shown /\ w = Shown'
        OBVIOUS
    <2>1. v.defs[f] = ShownDef(before.defs[f]) /\ w.defs[f] = ShownDef(after.defs[f])
        BY <1>4, <1>5, <1>9, <1>10, <1>11
    <2>2. \A g \in Field \ {f} : v.defs[g] = w.defs[g]
        BY <1>4, <1>5, <1>9
    <2>3. \A r \in R : before.rows[r] = v.cells[r] /\ after.rows[r] = w.cells[r]
        BY <1>5, <1>9, <1>12, <1>13
    <2>4. \A r \in Record \ R : v.cells[r] = w.cells[r]
        BY <1>5, <1>9, <1>14
    <2>5. FieldChange(f, v, w, before, after, R)
        BY <1>10, <1>12, <1>13, <2>1, <2>2, <2>3, <2>4 DEF FieldChange
    <2>6. Step([before |-> before, after |-> after], v, w)
        BY <2>5, FieldStep
    <2> QED
        BY <2>6
<1>17. Makes(b)
    BY <1>1, <1>9, <1>15, <1>16 DEF Makes
<1> QED
    BY <1>17

\* A delete takes a column away, and its images have every row of it.
LEMMA DeleteMakes ==
    ASSUME EInv, IInv', NEW f \in Field, DeleteField(f),
           Len(batches') = Len(batches) + 1
    PROVE  \E b : Makes(b)
<1> PICK before : before = Snapshot(f)
    OBVIOUS
<1> DEFINE rows == [r \in DOMAIN before.rows |-> [before.rows[r] EXCEPT ![f] = NoKey]]
<1>1. /\ f \in Active /\ TypeOK /\ defs[f] \in Def
      /\ defs' = [defs EXCEPT ![f] = [defs[f] EXCEPT !.deleted = TRUE]]
      /\ cells' = [r \in Record |-> [cells[r] EXCEPT ![f] = NoKey]]
      /\ meta' = [v \in View |-> IF v \in views THEN meta[v] \ {f} ELSE meta[v]]
      /\ UNCHANGED <<views, undone>>
    <2>1. f \in Active /\ TypeOK /\ defs[f] \in Def
        BY DEF DeleteField, Deletable, EInv, IInv, Active, TypeOK
    <2> QED
        BY <2>1 DEF DeleteField, TypeOK, Def
<1> PICK d : d = [defs[f] EXCEPT !.deleted = TRUE]
    OBVIOUS
<1>2. d \in Def /\ d.deleted
    BY <1>1 DEF Def
<1>3. /\ defs'[f] = d
      /\ \A g \in Field \ {f} : defs'[g] = defs[g]
    BY <1>1, <1>2 DEF TypeOK
<1>4. /\ Shown \in Grid /\ Shown.cells = cells
      /\ \A g \in Field : Shown.defs[g] = ShownDef(defs[g])
      /\ \A g \in Field, r \in Record :
            IF ShownDef(defs[g]) = None THEN cells[r][g] = NoKey
            ELSE Fits(cells[r][g], defs[g].type)
    BY GridNow DEF EInv
<1>5. \A r \in Record :
        /\ cells'[r] = [cells[r] EXCEPT ![f] = NoKey]
        /\ cells'[r][f] = NoKey
        /\ \A g \in Field \ {f} : cells'[r][g] = cells[r][g]
        /\ cells[r][f] = NoKey => cells'[r] = cells[r]
    BY <1>1 DEF TypeOK
<1>6. ShownDef(d) = None
    BY <1>2 DEF ShownDef
<1>7. /\ Shown' \in Grid /\ Shown'.cells = cells'
      /\ \A g \in Field : Shown'.defs[g] = ShownDef(defs'[g])
    <2>1. ASSUME NEW g \in Field, NEW r \in Record
          PROVE  IF ShownDef(defs'[g]) = None THEN cells'[r][g] = NoKey
                 ELSE Fits(cells'[r][g], defs'[g].type)
        <3>1. CASE g = f
            <4>1. defs'[g] = d
                BY <1>3, <3>1
            <4>2. ShownDef(defs'[g]) = None
                BY <1>6, <4>1
            <4>3. cells'[r][g] = NoKey
                BY <1>5, <3>1
            <4> QED
                BY <4>2, <4>3
        <3>2. CASE g # f
            <4>1. defs'[g] = defs[g] /\ cells'[r][g] = cells[r][g]
                BY <1>3, <1>5, <3>2
            <4>2. IF ShownDef(defs[g]) = None THEN cells[r][g] = NoKey
                  ELSE Fits(cells[r][g], defs[g].type)
                BY <1>4
            <4> QED
                BY <4>1, <4>2
        <3> QED
            BY <3>1, <3>2
    <2> QED
        BY <2>1, GridNext DEF IInv
<1>8. before \in Image /\ DOMAIN before.defs = {f} /\ before.defs[f] = defs[f]
    BY <1>1, SnapshotNow DEF EInv, IInv
<1> PICK R : R = {r \in Record : cells[r][f] # NoKey}
    OBVIOUS
<1>9. /\ DOMAIN before.rows = R
      /\ \A r \in R : before.rows[r] = cells[r]
    BY SnapshotRows
<1>10. /\ DOMAIN rows = R
       /\ \A r \in R : rows[r] = cells'[r]
    BY <1>5, <1>9
<1> PICK taken : taken = Snapshot(f)'
    OBVIOUS
<1>11. taken \in Image /\ DOMAIN taken.defs = {f} /\ taken.defs[f] = d
    <2>1. /\ cells' \in [Record -> [Field -> Cell]] /\ views' \in SUBSET View
          /\ \A v \in views' : meta'[v] \in SUBSET Field
        BY <1>1 DEF EInv, IInv, TypeOK, ViewsHaveMeta
    <2> QED
        BY <1>2, <1>3, <2>1, SnapshotNext
<1>12. LogFieldOp(f, before, [taken EXCEPT !.rows = rows])
    BY DEF DeleteField
<1> HIDE DEF rows
<1> PICK after : after = [taken EXCEPT !.rows = rows]
    OBVIOUS
<1>13. DOMAIN after.defs = {f} /\ after.defs[f] = d /\ after.rows = rows
    BY <1>11 DEF Image
<1> PICK b : b = [before |-> before, after |-> after]
    OBVIOUS
<1>14. batches' = Append(batches, b)
    <2>1. LogFieldOp(f, before, after) /\ IInv
        BY <1>12 DEF EInv
    <2>2. batches' = Append(batches, [before |-> before, after |-> after])
        BY <2>1, LoggedOp
    <2> QED
        BY <2>2
<1>15. Step(b, Shown, Shown')
    <2> PICK v, w : v = Shown /\ w = Shown'
        OBVIOUS
    <2>1. v.defs[f] = ShownDef(before.defs[f]) /\ w.defs[f] = ShownDef(after.defs[f])
        BY <1>3, <1>4, <1>7, <1>8, <1>13
    <2>2. \A g \in Field \ {f} : v.defs[g] = w.defs[g]
        BY <1>3, <1>4, <1>7
    <2>3. \A r \in R : before.rows[r] = v.cells[r] /\ after.rows[r] = w.cells[r]
        BY <1>4, <1>7, <1>9, <1>10, <1>13
    <2>4. \A r \in Record \ R : v.cells[r] = w.cells[r]
        BY <1>4, <1>5, <1>7
    <2>5. FieldChange(f, v, w, before, after, R)
        BY <1>8, <1>9, <1>10, <1>13, <2>1, <2>2, <2>3, <2>4 DEF FieldChange
    <2>6. Step([before |-> before, after |-> after], v, w)
        BY <2>5, FieldStep
    <2> QED
        BY <2>6
<1>16. Makes(b)
    BY <1>1, <1>7, <1>14, <1>15 DEF Makes
<1> QED
    BY <1>16

\* A cell that is written fits, and its row is logged whole.
LEMMA UpdateRecordMakes ==
    ASSUME EInv, IInv', NEW r \in Record, NEW f \in Active, NEW v \in Written,
           Fits(v, defs[f].type), UpdateRecord(r, f, v)
    PROVE  \E b : Makes(b)
<1> PICK row : row = [cells[r] EXCEPT ![f] = v]
    OBVIOUS
<1> PICK now : now = cells[r]
    OBVIOUS
<1>1. /\ cells' = [cells EXCEPT ![r] = row]
      /\ Log(RowImage(r, now), RowImage(r, row))
      /\ UNCHANGED <<defs, views, meta, undone, unlogged>>
    BY DEF UpdateRecord
<1>2. f \in Field /\ defs[f] # None /\ ~defs[f].deleted
    BY DEF Active
<1>3. now \in [Field -> Cell]
    BY DEF EInv, IInv, TypeOK
<1>4. /\ row[f] = v
      /\ \A g \in Field \ {f} : row[g] = now[g]
    BY <1>2, <1>3
<1>5. /\ cells'[r] = row
      /\ \A x \in Record \ {r} : cells'[x] = cells[x]
    BY <1>1 DEF EInv, IInv, TypeOK
<1>6. /\ Shown \in Grid /\ Shown.cells = cells
      /\ \A g \in Field : Shown.defs[g] = ShownDef(defs[g])
      /\ \A g \in Field, x \in Record :
            IF ShownDef(defs[g]) = None THEN cells[x][g] = NoKey
            ELSE Fits(cells[x][g], defs[g].type)
    BY GridNow DEF EInv
<1>7. /\ Shown' \in Grid /\ Shown'.cells = cells'
      /\ \A g \in Field : Shown'.defs[g] = ShownDef(defs'[g])
    <2>1. ASSUME NEW g \in Field, NEW x \in Record
          PROVE  IF ShownDef(defs'[g]) = None THEN cells'[x][g] = NoKey
                 ELSE Fits(cells'[x][g], defs'[g].type)
        <3>1. CASE x = r /\ g = f
            BY <1>1, <1>2, <1>4, <1>5, <3>1 DEF ShownDef
        <3>2. CASE ~(x = r /\ g = f)
            <4>1. cells'[x][g] = cells[x][g] /\ defs' = defs
                BY <1>1, <1>4, <1>5, <3>2
            <4> QED
                BY <1>6, <4>1
        <3> QED
            BY <3>1, <3>2
    <2> QED
        BY <2>1, GridNext DEF IInv
<1> PICK before : before = RowImage(r, now)
    OBVIOUS
<1> PICK after : after = RowImage(r, row)
    OBVIOUS
<1>8. /\ DOMAIN before.defs = {}
      /\ DOMAIN before.rows = {r} /\ before.rows[r] = now
      /\ DOMAIN after.rows = {r} /\ after.rows[r] = row
    BY DEF RowImage
<1> PICK b : b = [before |-> before, after |-> after]
    OBVIOUS
<1>9. b.before = before /\ b.after = after
    OBVIOUS
<1>10. batches' = Append(batches, b)
    BY <1>1 DEF Log
<1>11. Step(b, Shown, Shown')
    <2> PICK x, w : x = Shown /\ w = Shown'
        OBVIOUS
    <2>1. \A g \in Field : x.defs[g] = w.defs[g]
        BY <1>1, <1>6, <1>7
    <2>2. x.cells[r] = now /\ w.cells[r] = row /\ \A y \in Record \ {r} : x.cells[y] = w.cells[y]
        BY <1>5, <1>6, <1>7
    <2>3. Step(b, x, w)
        BY <1>8, <1>9, <2>1, <2>2 DEF Step
    <2> QED
        BY <2>3
<1>12. Makes(b)
    BY <1>1, <1>7, <1>10, <1>11 DEF Makes
<1> QED
    BY <1>12

-----------------------------------------------------------------------------
\* The steps of a log do not change when a batch is added.
LEMMA StepsKept ==
    ASSUME NEW bs, NEW cs, NEW l, NEW vs,
           DOMAIN bs \subseteq DOMAIN cs,
           \A k \in DOMAIN bs : cs[k] = bs[k],
           Leads(l, vs, Grid, StepsOf(bs))
    PROVE  \A i \in 1..Len(l) : <<l[i], vs[i], vs[i + 1]>> \in StepsOf(cs)
<1> SUFFICES ASSUME NEW i \in 1..Len(l)
             PROVE  <<l[i], vs[i], vs[i + 1]>> \in StepsOf(cs)
    OBVIOUS
<1>1. <<l[i], vs[i], vs[i + 1]>> \in StepsOf(bs)
    BY DEF Leads
<1> QED
    BY <1>1 DEF StepsOf

\* An edit adds its batch and its version to the line.
LEMMA EditEInv ==
    ASSUME EInv, IInv', Edit
    PROVE  EInv' /\ History!Edit
<1>1. PICK b : Makes(b)
    BY CreateMakes, UpdateMakes, DeleteMakes, UpdateRecordMakes DEF Edit, EditField
<1>2. /\ versions' = Append(SubSeq(versions, 1, cursor), Shown')
      /\ line' = Append(SubSeq(line, 1, cursor - 1), Len(batches'))
      /\ cursor' = cursor + 1
      /\ Len(batches') = Len(batches) + 1
    BY DEF Edit, Shown
<1>3. /\ undone' = undone /\ batches' = Append(batches, b)
      /\ Shown' \in Grid /\ Shown'.cells = cells' /\ Step(b, Shown, Shown')
    BY <1>1 DEF Makes
<1>4. /\ DOMAIN batches' = DOMAIN batches \cup {Len(batches) + 1}
      /\ \A k \in DOMAIN batches : batches'[k] = batches[k]
      /\ batches'[Len(batches) + 1] = b
    <2>1. batches \in Seq(Batch) /\ batches' \in Seq(Batch)
        BY DEF EInv, IInv, LogInv
    <2> QED
        BY <1>2, <1>3, <2>1
<1>5. Shown \in Grid /\ versions[cursor] = Shown
    BY GridNow DEF EInv
<1>6. Walk(Len(batches'), undone', line', cursor')
    BY <1>2, <1>3, WalkEdit DEF EInv
<1>7. /\ line \in Seq(1..Len(batches)) /\ cursor \in 1..(Len(line) + 1)
      /\ Len(line) \in Nat
    BY WalkTypes DEF EInv
<1> PICK bs, v, w : bs = batches' /\ v = Shown /\ w = Shown'
    OBVIOUS
<1>8. <<Len(batches) + 1, versions[cursor], w>> \in StepsOf(bs)
    <2>1. /\ Len(batches) + 1 \in DOMAIN bs
          /\ v \in Grid /\ w \in Grid /\ Step(bs[Len(batches) + 1], v, w)
        BY <1>3, <1>4, <1>5
    <2>2. <<Len(batches) + 1, v, w>> \in StepsOf(bs)
        BY <2>1 DEF StepsOf
    <2> QED
        BY <1>5, <2>2
<1>9. \A i \in 1..Len(line) : <<line[i], versions[i], versions[i + 1]>> \in StepsOf(bs)
    BY <1>4, StepsKept DEF EInv
<1>10. Leads(Append(SubSeq(line, 1, cursor - 1), Len(batches) + 1),
             Append(SubSeq(versions, 1, cursor), w), Grid, StepsOf(bs))
    BY <1>3, <1>7, <1>8, <1>9, LeadsEdit DEF EInv
<1>11. Leads(line', versions', Grid, StepsOf(batches'))
    BY <1>2, <1>10
<1>12. versions'[cursor'] = Shown'
    <2>1. versions \in Seq(Grid) /\ Len(versions) = Len(line) + 1
        BY DEF EInv, Leads
    <2>2. SubSeq(versions, 1, cursor) \in Seq(Grid) /\ Len(SubSeq(versions, 1, cursor)) = cursor
        BY <1>7, <2>1
    <2> QED
        BY <1>2, <1>3, <2>2
<1>13. History!Edit
    BY <1>2, <1>3 DEF History!Edit, Grid
<1> QED
    BY <1>3, <1>6, <1>11, <1>12, <1>13 DEF EInv

\* The fields and cells that undo and redo leave.
LEMMA Rewound ==
    ASSUME TypeOK, NEW image \in Image, Restore(image)
    PROVE  /\ \A f \in Field : defs'[f] =
                IF f \in DOMAIN image.defs THEN image.defs[f] ELSE defs[f]
           /\ \A r \in Record : cells'[r] =
                IF r \in DOMAIN image.rows THEN image.rows[r] ELSE cells[r]
<1>1. \A f \in Field : defs'[f] =
        IF f \in DOMAIN image.defs THEN image.defs[f] ELSE defs[f]
    BY RestoreFacts
<1>2. cells' = Over(image.rows, cells) /\ DOMAIN cells = Record
    BY DEF Restore, TypeOK
<1> PICK g : g = image.rows
    OBVIOUS
<1>3. \A r \in Record : cells'[r] = IF r \in DOMAIN g THEN g[r] ELSE cells[r]
    BY <1>2 DEF Over
<1> QED
    BY <1>1, <1>3

\* What undo and redo leave is shown as the version v that the log leads to.
LEMMA RewoundTo ==
    ASSUME EInv, IInv', NEW image \in Image, Restore(image), NEW v \in Grid,
           \A f \in Field : v.defs[f] =
                IF f \in DOMAIN image.defs THEN ShownDef(image.defs[f]) ELSE Shown.defs[f],
           \A r \in Record : v.cells[r] =
                IF r \in DOMAIN image.rows THEN image.rows[r] ELSE Shown.cells[r]
    PROVE  Shown' = v /\ Shown'.cells = cells'
<1>1. /\ \A f \in Field : defs'[f] =
            IF f \in DOMAIN image.defs THEN image.defs[f] ELSE defs[f]
      /\ \A r \in Record : cells'[r] =
            IF r \in DOMAIN image.rows THEN image.rows[r] ELSE cells[r]
    BY Rewound DEF EInv, IInv
<1>2. Shown.cells = cells /\ \A f \in Field : Shown.defs[f] = ShownDef(defs[f])
    BY GridNow DEF EInv
<1> PICK ds, cs, s : ds = defs' /\ cs = cells' /\ s = Shown'
    OBVIOUS
<1>3. ds \in [Field -> Def \cup {None}] /\ cs \in [Record -> [Field -> Cell]] /\ s = ShownIn(ds, cs)
    BY DEF IInv, TypeOK, Shown
<1>4. \A f \in Field : v.defs[f] = ShownDef(ds[f])
    <2> SUFFICES ASSUME NEW f \in Field PROVE v.defs[f] = ShownDef(ds[f])
        OBVIOUS
    <2>1. CASE f \in DOMAIN image.defs
        <3>1. ds[f] = image.defs[f] /\ v.defs[f] = ShownDef(image.defs[f])
            BY <1>1, <2>1
        <3> QED
            BY <3>1
    <2>2. CASE f \notin DOMAIN image.defs
        <3>1. ds[f] = defs[f] /\ v.defs[f] = ShownDef(defs[f])
            BY <1>1, <1>2, <2>2
        <3> QED
            BY <3>1
    <2> QED
        BY <2>1, <2>2
<1>5. \A r \in Record : v.cells[r] = cs[r]
    BY <1>1, <1>2
<1>6. s = v /\ s.cells = cs
    BY <1>3, <1>4, <1>5, ShownIs
<1> QED
    BY <1>6

\* What is applied is what is not marked undone.
LEMMA AppliedFacts ==
    ASSUME LogInv
    PROVE  /\ DOMAIN batches = 1..Len(batches) /\ Len(batches) \in Nat
           /\ \A k : k \in Applied <=>
                k \in 1..Len(batches) /\ \A i \in 1..Len(undone) : undone[i] # k
<1>1. /\ DOMAIN batches = 1..Len(batches) /\ Len(batches) \in Nat
      /\ DOMAIN undone = 1..Len(undone)
    BY DEF LogInv
<1>2. \A k : k \in Undone <=> \E i \in 1..Len(undone) : undone[i] = k
    BY <1>1 DEF Undone
<1> QED
    BY <1>1, <1>2 DEF Applied

\* Undo shows the version before the last edit in force.
LEMMA UndoEInv ==
    ASSUME EInv, IInv', Undo
    PROVE  EInv' /\ History!Undo
<1>1. PICK k \in Applied :
        /\ \A j \in Applied : j <= k
        /\ Restore(batches[k].before)
        /\ undone' = Append(undone, k)
        /\ UNCHANGED <<views, batches, unlogged>>
    BY DEF Undo, UndoLastBatch
<1>2. cursor' = cursor - 1 /\ versions' = versions /\ line' = line
    BY DEF Undo
<1>3. /\ DOMAIN batches = 1..Len(batches)
      /\ \A j : j \in Applied <=>
            j \in 1..Len(batches) /\ \A i \in 1..Len(undone) : undone[i] # j
    BY AppliedFacts DEF EInv, IInv
<1>4. /\ cursor > 1 /\ line[cursor - 1] = k
      /\ Walk(Len(batches), Append(undone, k), line, cursor - 1)
    <2>1. /\ k \in 1..Len(batches)
          /\ \A i \in 1..Len(undone) : undone[i] # k
          /\ \A j \in 1..Len(batches) :
                (\A i \in 1..Len(undone) : undone[i] # j) => j <= k
        BY <1>1, <1>3
    <2> QED
        BY <2>1, WalkUndo DEF EInv
<1>5. /\ cursor - 1 \in 1..Len(line) /\ (cursor - 1) + 1 = cursor
      /\ cursor \in Nat
    <2>1. cursor \in 1..(Len(line) + 1) /\ Len(line) \in Nat
        BY WalkTypes DEF EInv
    <2> QED
        BY <1>4, <2>1
<1>6. <<k, versions[cursor - 1], versions[cursor]>> \in StepsOf(batches)
    <2>1. \A i \in 1..Len(line) : <<line[i], versions[i], versions[i + 1]>> \in StepsOf(batches)
        BY DEF EInv, Leads
    <2>2. <<line[cursor - 1], versions[cursor - 1], versions[(cursor - 1) + 1]>> \in StepsOf(batches)
        BY <1>5, <2>1
    <2> QED
        BY <1>4, <1>5, <2>2
<1> PICK b : b = batches[k]
    OBVIOUS
<1> PICK v : v = versions[cursor - 1]
    OBVIOUS
<1> PICK w : w = versions[cursor]
    OBVIOUS
<1>7. v \in Grid /\ Step(b, v, w) /\ w = Shown
    BY <1>6 DEF StepsOf, EInv
<1> PICK image : image = b.before
    OBVIOUS
<1>8. image \in Image /\ Restore(image)
    <2>1. LogInv /\ k \in DOMAIN batches
        BY <1>1, <1>3 DEF EInv, IInv
    <2>2. b \in Batch
        BY <2>1 DEF LogInv
    <2> QED
        BY <1>1, <2>2 DEF Batch
<1>9. Shown' = v /\ Shown'.cells = cells'
    <2>1. /\ \A f \in Field : v.defs[f] =
                IF f \in DOMAIN image.defs THEN ShownDef(image.defs[f]) ELSE w.defs[f]
          /\ \A r \in Record : v.cells[r] =
                IF r \in DOMAIN image.rows THEN image.rows[r] ELSE w.cells[r]
        BY <1>7 DEF Step
    <2> QED
        BY <1>7, <1>8, <2>1, RewoundTo
<1>10. EInv'
    BY <1>1, <1>2, <1>4, <1>9 DEF EInv
<1>11. History!Undo
    BY <1>2, <1>4, <1>9 DEF History!Undo
<1> QED
    BY <1>10, <1>11

\* Redo, before a newer edit, shows the version after.
LEMMA RedoEInv ==
    ASSUME EInv, IInv', Redo
    PROVE  EInv' /\ History!Redo
<1> PICK k : k = undone[Len(undone)]
    OBVIOUS
<1>1. /\ undone # <<>>
      /\ \A j \in Applied : j < k
      /\ Restore(batches[k].after)
      /\ undone' = SubSeq(undone, 1, Len(undone) - 1)
      /\ UNCHANGED <<views, batches, unlogged>>
    BY DEF Redo, RedoLastBatch
<1>2. cursor' = cursor + 1 /\ versions' = versions /\ line' = line
    BY DEF Redo
<1>3. /\ DOMAIN batches = 1..Len(batches)
      /\ \A j : j \in Applied <=>
            j \in 1..Len(batches) /\ \A i \in 1..Len(undone) : undone[i] # j
    BY AppliedFacts DEF EInv, IInv
<1>4. /\ cursor < Len(line) + 1 /\ line[cursor] = k
      /\ Walk(Len(batches), SubSeq(undone, 1, Len(undone) - 1), line, cursor + 1)
    <2>1. \A j \in 1..Len(batches) :
            (\A i \in 1..Len(undone) : undone[i] # j) => j < undone[Len(undone)]
        BY <1>1, <1>3
    <2> QED
        BY <1>1, <2>1, WalkRedo DEF EInv
<1>5. cursor \in 1..Len(line) /\ cursor \in Nat /\ Len(line) \in Nat
    <2>1. cursor \in 1..(Len(line) + 1) /\ Len(line) \in Nat
        BY WalkTypes DEF EInv
    <2> QED
        BY <1>4, <2>1
<1>6. <<k, versions[cursor], versions[cursor + 1]>> \in StepsOf(batches)
    <2>1. \A i \in 1..Len(line) : <<line[i], versions[i], versions[i + 1]>> \in StepsOf(batches)
        BY DEF EInv, Leads
    <2> QED
        BY <1>4, <1>5, <2>1
<1> PICK b : b = batches[k]
    OBVIOUS
<1> PICK v : v = versions[cursor]
    OBVIOUS
<1> PICK w : w = versions[cursor + 1]
    OBVIOUS
<1>7. k \in DOMAIN batches /\ w \in Grid /\ Step(b, v, w) /\ v = Shown
    BY <1>6 DEF StepsOf, EInv
<1> PICK image : image = b.after
    OBVIOUS
<1>8. image \in Image /\ Restore(image) /\ DOMAIN b.before.defs = DOMAIN image.defs
    <2>1. LogInv /\ k \in DOMAIN batches
        BY <1>7 DEF EInv, IInv
    <2>2. b \in Batch /\ Agrees(b)
        BY <2>1 DEF LogInv
    <2> QED
        BY <1>1, <2>2 DEF Batch, Agrees
<1>9. Shown' = w /\ Shown'.cells = cells'
    <2>1. /\ \A f \in Field : w.defs[f] =
                IF f \in DOMAIN image.defs THEN ShownDef(image.defs[f]) ELSE v.defs[f]
          /\ \A r \in Record : w.cells[r] =
                IF r \in DOMAIN image.rows THEN image.rows[r] ELSE v.cells[r]
        BY <1>7, <1>8 DEF Step
    <2> QED
        BY <1>7, <1>8, <2>1, RewoundTo
<1>10. EInv'
    BY <1>1, <1>2, <1>4, <1>9 DEF EInv
<1>11. History!Redo
    <2>1. Len(versions) = Len(line) + 1
        BY DEF EInv, Leads
    <2> QED
        BY <1>2, <1>4, <1>9, <2>1 DEF History!Redo
<1> QED
    BY <1>10, <1>11

\* A new table is where the line begins.
LEMMA InitEInv == EInit => EInv /\ History!Init
<1> SUFFICES ASSUME EInit PROVE EInv /\ History!Init
    OBVIOUS
<1>1. IInv
    BY InitIInv DEF EInit
<1> PICK ds, cs, s : ds = defs /\ cs = cells /\ s = Shown
    OBVIOUS
<1>2. \A f \in Field, r \in Record : cs[r][f] = NoKey
    BY DEF EInit, Init
<1>3. \A f \in Field, r \in Record :
            IF ShownDef(ds[f]) = None THEN cs[r][f] = NoKey
            ELSE Fits(cs[r][f], ds[f].type)
    BY <1>2, FitsKinds
<1>4. s \in Grid /\ s.cells = cs
    <2>1. ds \in [Field -> Def \cup {None}] /\ cs \in [Record -> [Field -> Cell]] /\ s = ShownIn(ds, cs)
        BY <1>1 DEF IInv, TypeOK, Shown
    <2> QED
        BY <1>3, <2>1, ShownWhole
<1>5. batches = <<>> /\ undone = <<>> /\ line = <<>> /\ cursor = 1 /\ versions = <<Shown>>
    BY DEF EInit, Init
<1>6. Walk(Len(batches), undone, line, cursor)
    BY <1>5 DEF Walk
<1>7. Leads(line, versions, Grid, StepsOf(batches))
    <2>1. Shown \in Grid
        BY <1>4
    <2> QED
        BY <1>5, <2>1 DEF Leads
<1>8. History!Init
    BY <1>4, <1>5 DEF History!Init, Grid
<1> QED
    BY <1>1, <1>4, <1>5, <1>6, <1>7, <1>8 DEF EInv

\* The editor's steps are steps of the store, and of the abstract history.
LEMMA NextEInv ==
    ASSUME EInv, [ENext]_evars
    PROVE  EInv' /\ [History!Next]_(History!hvars)
<1>1. CASE UNCHANGED evars
    <2>1. UNCHANGED <<vars, versions, line, cursor>>
        BY <1>1 DEF evars
    <2>2. IInv'
        BY <2>1, NextIInv DEF EInv
    <2>3. Shown' = Shown /\ cells' = cells
        BY <2>1 DEF vars, Shown, ShownIn
    <2> QED
        BY <2>1, <2>2, <2>3 DEF EInv, vars, History!hvars
<1>2. CASE ENext
    <2>1. Next
        BY <1>2 DEF ENext, Edit, Undo, Redo, Next
    <2>2. IInv'
        BY <2>1, NextIInv DEF EInv
    <2> QED
        BY <1>2, <2>2, EditEInv, UndoEInv, RedoEInv DEF ENext, History!Next
<1> QED
    BY <1>1, <1>2

\* The invariant of the editor holds in every reachable state.
THEOREM EditorInvariance == ESpec => []EInv
<1>1. EInit => EInv
    BY InitEInv
<1>2. EInv /\ [ENext]_evars => EInv'
    BY NextEInv
<1> QED
    BY <1>1, <1>2, PTL DEF ESpec

\* Whatever the fields, the rows and the mix of conversions, changed choices,
\* deletes, cell edits, undos and redos, the table shown is the version the
\* cursor stands on: the store under the editor's habits implements
\* EditHistory.
THEOREM FieldHistoryWalked == ESpec => WalksFieldHistory
<1>1. EInit => History!Init
    BY InitEInv
<1>2. EInv /\ [ENext]_evars => [History!Next]_(History!hvars)
    BY NextEInv
<1> QED
    BY <1>1, <1>2, EditorInvariance, PTL DEF ESpec, WalksFieldHistory, History!Spec

\* convertValue, the cleanup of choices, undo and redo leave lists in multiple
\* selects and texts in the others, if the editor writes them so.
THEOREM CellsAlwaysFit == ESpec => []CellsFitType
<1>1. EInv => CellsFitType
    <2> SUFFICES ASSUME EInv, NEW f \in Active, NEW r \in Record
                 PROVE  Fits(cells[r][f], defs[f].type)
        BY DEF CellsFitType
    <2>1. f \in Field /\ ShownDef(defs[f]) # None
        BY DEF Active, ShownDef
    <2> QED
        BY <2>1, GridNow
<1> QED
    BY <1>1, EditorInvariance, PTL
=============================================================================
