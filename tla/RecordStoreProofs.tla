--------------------------- MODULE RecordStoreProofs ---------------------------
(***************************************************************************)
(* The record rows, the index and the log agree after every sequence of    *)
(* calls, for any tables, records, cells and formulas; and an editor who   *)
(* keeps to the habits of UndoableEditing is shown the versions made.      *)
(***************************************************************************)
EXTENDS UndoableEditing, EditLine

\* A row holds cells, never NULL.
Kept == \A r \in Record : Exists(r) => fields[r] \in Content

\* The log names rows only: permanentDeleteTable takes their ops along.
LogOfRows ==
    \A k \in DOMAIN batches : \A r \in DOMAIN batches[k] : Exists(r)

\* A batch is undone once until it is redone.
UndoneOnce ==
    \A i, j \in DOMAIN undone : undone[i] = undone[j] => i = j

IInv ==
    /\ TypeOK
    /\ Kept
    /\ LogOfRows
    /\ UndoneOnce
    /\ IndexCurrent
    /\ DeletedRecoverable

\* What undo and redo hand to Restore.
Images == UNION {[S -> Image] : S \in SUBSET Record}

-----------------------------------------------------------------------------
(***************************************************************************)
(* The operators.                                                          *)
(***************************************************************************)
\* A patched row is a row.
LEMMA MergeType ==
    ASSUME NEW cells \in Content, NEW patch \in Patches
    PROVE  Merge(cells, patch) \in Content
BY DEF Merge, Patches, Content

\* What can be read from a batch of the log, and from an image.
LEMMA BatchFacts ==
    ASSUME NEW b \in Batch
    PROVE  /\ DOMAIN b \subseteq Record
           /\ \A r \in DOMAIN b :
                b[r] \in Change /\ b[r].before \in Image /\ b[r].after \in Image
BY DEF Batch, Change

\* An image has rows of records only, with or without cells.
LEMMA ImagesFacts ==
    ASSUME NEW image \in Images
    PROVE  /\ DOMAIN image \subseteq Record
           /\ \A r \in DOMAIN image : image[r] \in Image
BY DEF Images

\* The batch of a call on one record.
LEMMA OneOpBatch ==
    ASSUME NEW r \in Record, NEW before \in Image, NEW after \in Image,
           NEW b, b = [x \in {r} |-> [before |-> before, after |-> after]]
    PROVE  /\ b \in Batch
           /\ DOMAIN b = {r}
           /\ b[r].before = before /\ b[r].after = after
<1>1. b \in [{r} -> Change]
    BY DEF Change
<1> QED
    BY <1>1 DEF Batch

\* Restore brings the rows of an image to what it says, leaves the others
\* alone and keeps the index in step.
LEMMA RestoreFacts ==
    ASSUME TypeOK, Kept, IndexCurrent,
           NEW image \in Images, Restore(image),
           \A r \in DOMAIN image : image[r] = None => Exists(r)
    PROVE  /\ status' \in [Record -> Status]
           /\ fields' \in [Record -> Image]
           /\ fts' \in [Record -> IndexRow]
           /\ Kept' /\ IndexCurrent'
           /\ \A r \in DOMAIN image :
                status'[r] = IF image[r] = None THEN "deleted" ELSE "live"
           /\ \A r \in Record \ DOMAIN image : status'[r] = status[r]
           /\ \A r \in Record : Exists(r) => Exists(r)'
           /\ \A r \in Record : fields'[r] =
                IF r \in DOMAIN image /\ image[r] # None THEN image[r] ELSE fields[r]
<1> DEFINE written == {r \in DOMAIN image : image[r] # None}
<1> USE ImagesFacts DEF TypeOK
<1>1. /\ status' \in [Record -> Status]
      /\ \A r \in Record : status'[r] =
            IF r \in DOMAIN image
            THEN IF r \in written THEN "live" ELSE "deleted" ELSE status[r]
    <2> DEFINE g == [r \in DOMAIN image |->
                        IF r \in written THEN "live" ELSE "deleted"]
    <2>1. status' = Over(g, status)
        BY DEF Restore
    <2>2. /\ DOMAIN g = DOMAIN image
          /\ \A x \in DOMAIN image :
                g[x] = IF x \in written THEN "live" ELSE "deleted"
          /\ \A x \in DOMAIN g \cap Record : g[x] \in Status
        BY DEF Status
    <2> HIDE DEF g
    <2>3. /\ Over(g, status) \in [Record -> Status]
          /\ \A x \in Record : Over(g, status)[x] =
                IF x \in DOMAIN g THEN g[x] ELSE status[x]
        BY <2>2 DEF Over
    <2> QED
        BY <2>1, <2>2, <2>3
<1>2. /\ fields' \in [Record -> Image]
      /\ \A r \in Record : fields'[r] =
            IF r \in written THEN image[r] ELSE fields[r]
    <2> DEFINE g == [r \in written |-> image[r]]
    <2>1. fields' = Over(g, fields)
        BY DEF Restore
    <2>2. /\ DOMAIN g = written
          /\ \A x \in written : g[x] = image[x]
          /\ \A x \in DOMAIN g \cap Record : g[x] \in Image
        OBVIOUS
    <2> HIDE DEF g
    <2>3. /\ Over(g, fields) \in [Record -> Image]
          /\ \A x \in Record : Over(g, fields)[x] =
                IF x \in DOMAIN g THEN g[x] ELSE fields[x]
        BY <2>2 DEF Over
    <2> QED
        BY <2>1, <2>2, <2>3
<1>3. /\ fts' \in [Record -> IndexRow]
      /\ \A r \in Record : fts'[r] =
            IF r \in DOMAIN image THEN image[r] ELSE fts[r]
    BY DEF Restore, Over, IndexRow
<1> HIDE DEF TypeOK
<1>4. Kept'
    BY <1>1, <1>2, RecordStoreAssumption DEF Kept, Exists, Image
<1>5. IndexCurrent'
    <2> SUFFICES ASSUME NEW r \in Record
                 PROVE  /\ status'[r] = "live" => fts'[r] \in {fields'[r], Astray}
                        /\ status'[r] = "deleted" =>
                                fts'[r] \in {None, fields'[r], Astray}
        BY DEF IndexCurrent
    <2>1. CASE r \in DOMAIN image
        BY <1>1, <1>2, <1>3, <2>1
    <2>2. CASE r \notin DOMAIN image
        BY <1>1, <1>2, <1>3, <2>2 DEF IndexCurrent
    <2> QED
        BY <2>1, <2>2
<1> QED
    BY <1>1, <1>2, <1>3, <1>4, <1>5 DEF Exists
\* Log adds one applied batch and moves nothing else.
LEMMA LogFacts ==
    ASSUME batches \in Seq(Batch), undone \in Seq(DOMAIN batches),
           NEW b \in Batch, Log(b), undone' = undone
    PROVE  /\ batches' \in Seq(Batch)
           /\ undone' \in Seq(DOMAIN batches')
           /\ DOMAIN batches' = DOMAIN batches \cup {Len(batches) + 1}
           /\ \A k \in DOMAIN batches : batches'[k] = batches[k]
           /\ batches'[Len(batches) + 1] = b
           /\ Len(batches) + 1 \in Applied'
           /\ \A k \in Applied : k \in Applied'
           /\ Undone' = Undone
<1>1. /\ batches' \in Seq(Batch)
      /\ Len(batches') = Len(batches) + 1
      /\ \A k \in DOMAIN batches : batches'[k] = batches[k]
      /\ batches'[Len(batches) + 1] = b
    BY DEF Log
<1>2. /\ DOMAIN batches = 1 .. Len(batches)
      /\ DOMAIN batches' = DOMAIN batches \cup {Len(batches) + 1}
      /\ Len(batches) + 1 \notin DOMAIN batches
    BY <1>1
<1>3. Undone' = Undone /\ Undone \subseteq DOMAIN batches
    BY DEF Undone
<1>4. undone' \in Seq(DOMAIN batches')
    BY <1>2
<1> QED
    BY <1>1, <1>2, <1>3, <1>4 DEF Applied

\* What a logged call has to show of the rows: the log and the promise of
\* recovery follow.
LEMMA LoggedCall ==
    ASSUME TypeOK, LogOfRows, UndoneOnce, DeletedRecoverable,
           NEW b \in Batch, Log(b), undone' = undone,
           \A r \in Record : Exists(r) => Exists(r)',
           \A r \in DOMAIN b : Exists(r)',
           \A r \in Record : status'[r] = "deleted" =>
                \/ status[r] = "deleted"
                \/ r \in DOMAIN b /\ b[r].after = None
    PROVE  /\ batches' \in Seq(Batch) /\ undone' \in Seq(DOMAIN batches')
           /\ LogOfRows' /\ UndoneOnce' /\ DeletedRecoverable'
<1>1. /\ batches' \in Seq(Batch)
      /\ undone' \in Seq(DOMAIN batches')
      /\ DOMAIN batches' = DOMAIN batches \cup {Len(batches) + 1}
      /\ \A k \in DOMAIN batches : batches'[k] = batches[k]
      /\ batches'[Len(batches) + 1] = b
      /\ Len(batches) + 1 \in Applied'
      /\ \A k \in Applied : k \in Applied'
      /\ Undone' = Undone
    BY LogFacts DEF TypeOK
<1>2. \A k \in DOMAIN batches : DOMAIN batches[k] \subseteq Record
    BY BatchFacts DEF TypeOK
<1>3. LogOfRows'
    BY <1>1, <1>2 DEF LogOfRows
<1>4. UndoneOnce'
    BY DEF UndoneOnce
<1>5. Applied \subseteq DOMAIN batches /\ Undone \subseteq DOMAIN batches
    BY DEF Applied, Undone, TypeOK
<1>6. DeletedRecoverable'
    <2> SUFFICES ASSUME NEW r \in Record, status'[r] = "deleted"
                 PROVE  \/ \E k \in Applied' :
                            r \in DOMAIN batches'[k] /\ batches'[k][r].after = None
                        \/ \E k \in Undone' :
                            r \in DOMAIN batches'[k] /\ batches'[k][r].before = None
        BY DEF DeletedRecoverable
    <2>1. CASE status[r] = "deleted"
        BY <1>1, <1>5, <2>1 DEF DeletedRecoverable
    <2>2. CASE r \in DOMAIN b /\ b[r].after = None
        BY <1>1, <2>2
    <2> QED
        BY <2>1, <2>2
<1> QED
    BY <1>1, <1>3, <1>4, <1>6

\* A call that leaves the log alone, and deletes no row, keeps what the
\* invariant says of the log.
LEMMA UnloggedCall ==
    ASSUME TypeOK, LogOfRows, UndoneOnce, DeletedRecoverable,
           UNCHANGED <<batches, undone>>,
           \A r \in Record : Exists(r) => Exists(r)',
           \A r \in Record : status'[r] = "deleted" => status[r] = "deleted"
    PROVE  LogOfRows' /\ UndoneOnce' /\ DeletedRecoverable'
<1>1. \A k \in DOMAIN batches : DOMAIN batches[k] \subseteq Record
    BY BatchFacts DEF TypeOK
<1>2. LogOfRows' /\ UndoneOnce'
    BY <1>1 DEF LogOfRows, UndoneOnce
<1>3. Applied' = Applied /\ Undone' = Undone
    BY DEF Applied, Undone
<1>4. DeletedRecoverable'
    BY <1>3 DEF DeletedRecoverable
<1> QED
    BY <1>2, <1>4

-----------------------------------------------------------------------------
(***************************************************************************)
(* One lemma per call.                                                     *)
(***************************************************************************)
LEMMA InitIInv == Init => IInv
<1> SUFFICES ASSUME Init PROVE IInv
    OBVIOUS
<1> USE DEF Init
<1>1. TypeOK
    BY DEF TypeOK, Status, Image, IndexRow
<1>2. Kept /\ IndexCurrent /\ DeletedRecoverable
    BY DEF Kept, Exists, IndexCurrent, DeletedRecoverable
<1>3. LogOfRows /\ UndoneOnce
    BY DEF LogOfRows, UndoneOnce
<1> QED
    BY <1>1, <1>2, <1>3 DEF IInv

\* createRecord keeps the invariant: the new row is indexed, and logged as
\* one that redo can bring back.
LEMMA CreateIInv ==
    ASSUME IInv, NEW r \in Record, NEW cells \in Content,
           CreateRecord(r, cells)
    PROVE  IInv'
<1> DEFINE image == [x \in {r} |-> cells]
           b == [x \in {r} |-> [before |-> None, after |-> cells]]
<1>1. image \in Images /\ cells # None
    <2>1. image \in [{r} -> Image]
        BY DEF Image
    <2> QED
        BY <2>1, RecordStoreAssumption DEF Images
<1>2. b \in Batch /\ DOMAIN b = {r} /\ b[r].after = cells
    BY OneOpBatch DEF Image
<1>3. /\ status' \in [Record -> Status]
      /\ fields' \in [Record -> Image]
      /\ fts' \in [Record -> IndexRow]
      /\ Kept' /\ IndexCurrent'
      /\ status'[r] = "live"
      /\ \A x \in Record \ {r} : status'[x] = status[x]
      /\ \A x \in Record : Exists(x) => Exists(x)'
    <2>1. Restore(image)
        BY DEF CreateRecord
    <2>2. DOMAIN image = {r} /\ image[r] = cells
        OBVIOUS
    <2> HIDE DEF image
    <2> QED
        BY <1>1, <2>1, <2>2, RestoreFacts DEF IInv
<1>4. Log(b) /\ UNCHANGED <<trash, undone, commented, history, purged>>
    BY DEF CreateRecord
<1> HIDE DEF b, image
<1>5. \A x \in DOMAIN b : Exists(x)'
    BY <1>2, <1>3 DEF Exists
<1>6. /\ batches' \in Seq(Batch) /\ undone' \in Seq(DOMAIN batches')
      /\ LogOfRows' /\ UndoneOnce' /\ DeletedRecoverable'
    BY <1>2, <1>3, <1>4, <1>5, LoggedCall DEF IInv
<1> QED
    BY <1>3, <1>4, <1>6 DEF IInv, TypeOK

\* updateRecord keeps it, also on a soft-deleted row: that row is indexed as
\* it is, and its delete stays in the log.
LEMMA UpdateIInv ==
    ASSUME IInv, NEW r \in Record, NEW patch \in Patches,
           UpdateRecord(r, patch)
    PROVE  IInv'
<1> DEFINE next == Merge(fields[r], patch)
           b == [x \in {r} |-> [before |-> fields[r], after |-> next]]
<1>1. fields[r] \in Content /\ next \in Content
    BY MergeType DEF UpdateRecord, IInv, Kept
<1>2. b \in Batch /\ DOMAIN b = {r}
    BY <1>1, OneOpBatch DEF Image
<1>3. /\ Log(b) /\ UNCHANGED <<status, trash, undone, commented, purged>>
      /\ fields' = [fields EXCEPT ![r] = next]
      /\ fts' = [fts EXCEPT ![r] = next]
      /\ Exists(r)
    BY DEF UpdateRecord
<1>4. history' \in [Record -> SUBSET Field]
    BY DEF UpdateRecord, IInv, TypeOK
<1> HIDE DEF next, b
<1>5. \A x \in Record : Exists(x)' = Exists(x)
    BY <1>3 DEF Exists
<1>6. /\ batches' \in Seq(Batch) /\ undone' \in Seq(DOMAIN batches')
      /\ LogOfRows' /\ UndoneOnce' /\ DeletedRecoverable'
    BY <1>2, <1>3, <1>5, LoggedCall DEF IInv
<1>7. TypeOK'
    BY <1>1, <1>3, <1>4, <1>6 DEF IInv, TypeOK, Image, IndexRow
<1>8. Kept' /\ IndexCurrent'
    BY <1>1, <1>3, <1>5 DEF IInv, TypeOK, Kept, IndexCurrent
<1> QED
    BY <1>6, <1>7, <1>8 DEF IInv

\* deleteRecord keeps it: the op it logs is the one undo needs.
LEMMA DeleteIInv ==
    ASSUME IInv, NEW r \in Record, DeleteRecord(r)
    PROVE  IInv'
<1> DEFINE b == [x \in {r} |-> [before |-> fields[r], after |-> None]]
           row == [id |-> Len(batches) + 1, record |-> r, fields |-> fields[r]]
<1>1. fields[r] \in Content
    BY DEF DeleteRecord, IInv, Kept
<1>2. b \in Batch /\ DOMAIN b = {r} /\ b[r].after = None
    BY <1>1, OneOpBatch DEF Image
<1>3. /\ Log(b) /\ UNCHANGED <<fields, undone, history, purged>>
      /\ status' = [status EXCEPT ![r] = "deleted"]
      /\ fts' = [fts EXCEPT ![r] = None]
      /\ trash' = trash \cup {row}
      /\ commented' = commented \ {r}
      /\ Exists(r)
    BY DEF DeleteRecord
<1>4. row \in TrashRow
    BY <1>1 DEF IInv, TypeOK, TrashRow
<1> HIDE DEF b, row
<1>5. \A x \in Record : Exists(x)' = Exists(x)
    BY <1>3 DEF IInv, TypeOK, Exists
<1>6. /\ batches' \in Seq(Batch) /\ undone' \in Seq(DOMAIN batches')
      /\ LogOfRows' /\ UndoneOnce' /\ DeletedRecoverable'
    <2>1. \A x \in Record : status'[x] = "deleted" =>
                \/ status[x] = "deleted"
                \/ x \in DOMAIN b /\ b[x].after = None
        BY <1>2, <1>3 DEF IInv, TypeOK
    <2> QED
        BY <1>2, <1>3, <1>5, <2>1, LoggedCall DEF IInv
<1>7. TypeOK'
    BY <1>3, <1>4, <1>6 DEF IInv, TypeOK, Image, Status, IndexRow
<1>8. Kept' /\ IndexCurrent'
    BY <1>3, <1>5 DEF IInv, TypeOK, Kept, IndexCurrent
<1> QED
    BY <1>6, <1>7, <1>8 DEF IInv
\* restoreTrash keeps it, whatever the age of the snapshot.
LEMMA RestoreTrashIInv ==
    ASSUME IInv, NEW t \in trash, RestoreTrash(t)
    PROVE  IInv'
<1>1. t.record \in Record /\ t.fields \in Content
    BY DEF IInv, TypeOK, TrashRow
<1>2. TypeOK'
    BY <1>1 DEF IInv, TypeOK, RestoreTrash, Status, Image, IndexRow
<1>3. \A x \in Record : Exists(x)' = Exists(x)
    BY <1>1 DEF IInv, TypeOK, RestoreTrash, Exists
<1>4. Kept' /\ IndexCurrent'
    BY <1>1, <1>3 DEF IInv, TypeOK, RestoreTrash, Kept, IndexCurrent, Exists
<1>5. \A x \in Record : status'[x] = "deleted" => status[x] = "deleted"
    BY <1>1 DEF IInv, TypeOK, RestoreTrash
<1>6. UNCHANGED <<batches, undone>>
    BY DEF RestoreTrash
<1> QED
    BY <1>2, <1>3, <1>4, <1>5, <1>6, UnloggedCall DEF IInv

\* The index rows of a table go, those filed elsewhere stay.
LEMMA UnfiledFacts ==
    ASSUME fts \in [Record -> IndexRow], NEW rows \in SUBSET Record
    PROVE  /\ Over(Unfiled(rows), fts) \in [Record -> IndexRow]
           /\ \A r \in Record : Over(Unfiled(rows), fts)[r] =
                IF r \in rows THEN IF fts[r] = Astray THEN Astray ELSE None
                ELSE fts[r]
<1>1. /\ DOMAIN Unfiled(rows) = rows
      /\ \A r \in rows :
            Unfiled(rows)[r] = IF fts[r] = Astray THEN Astray ELSE None
    BY DEF Unfiled
<1> QED
    BY <1>1 DEF Over, IndexRow, Image

\* rebuildSearchIndex keeps it.
LEMMA RebuildIInv ==
    ASSUME IInv, NEW t \in Table, RebuildSearchIndex(t)
    PROVE  IInv'
<1>1. \A r \in Live(t) : r \in Record /\ status[r] = "live"
    BY DEF Live, RecordsOf
<1>2. /\ fts' \in [Record -> IndexRow]
      /\ \A r \in Record : fts'[r] =
            IF r \in Live(t) THEN fields[r]
            ELSE IF r \in RecordsOf(t) THEN IF fts[r] = Astray THEN Astray ELSE None
            ELSE fts[r]
    <2> DEFINE g == [r \in Live(t) |-> fields[r]]
               h == Over(Unfiled(RecordsOf(t)), fts)
    <2>1. fts' = Over(g, h)
        BY DEF RebuildSearchIndex
    <2>2. /\ h \in [Record -> IndexRow]
          /\ \A r \in Record : h[r] =
                IF r \in RecordsOf(t) THEN IF fts[r] = Astray THEN Astray ELSE None
                ELSE fts[r]
        BY UnfiledFacts DEF RecordsOf, IInv, TypeOK
    <2>3. /\ DOMAIN g = Live(t)
          /\ \A r \in Live(t) : g[r] = fields[r] /\ fields[r] \in IndexRow
        BY <1>1 DEF IInv, TypeOK, IndexRow
    <2> HIDE DEF g, h
    <2> QED
        BY <2>1, <2>2, <2>3 DEF Over
<1>3. UNCHANGED <<status, fields, trash, batches, undone, commented, history, purged>>
    BY DEF RebuildSearchIndex
<1>4. TypeOK'
    BY <1>2, <1>3 DEF IInv, TypeOK
<1>5. Kept' /\ IndexCurrent'
    <2>1. \A r \in Record : Exists(r)' = Exists(r)
        BY <1>3 DEF Exists
    <2>2. \A r \in RecordsOf(t) : status[r] = "live" => r \in Live(t)
        BY DEF Live
    <2> QED
        BY <1>1, <1>2, <1>3, <2>1, <2>2 DEF IInv, Kept, IndexCurrent
<1> QED
    BY <1>3, <1>4, <1>5, UnloggedCall DEF IInv, Exists

\* Rows and index rows change together, unless the index row goes astray.
LEMMA RewriteIInv ==
    ASSUME IInv, NEW stale \in SUBSET Record, \A r \in stale : Exists(r),
           NEW next, DOMAIN next = stale, \A r \in stale : next[r] \in Content,
           NEW index, DOMAIN index = stale,
           \A r \in stale : index[r] \in {next[r], Astray},
           Rewrite(next, index)
    PROVE  IInv'
<1>1. /\ fields' = Over(next, fields)
      /\ fts' = Over(index, fts)
      /\ UNCHANGED <<status, trash, batches, undone, commented, history, purged>>
    BY DEF Rewrite
<1>2. /\ DOMAIN next = stale /\ DOMAIN index = stale /\ stale \subseteq Record
      /\ \A r \in stale : next[r] \in Content /\ index[r] \in {next[r], Astray}
    OBVIOUS
<1>3. /\ fields' \in [Record -> Image] /\ fts' \in [Record -> IndexRow]
      /\ \A r \in Record :
            /\ fields'[r] = IF r \in stale THEN next[r] ELSE fields[r]
            /\ fts'[r] = IF r \in stale THEN index[r] ELSE fts[r]
    BY <1>1, <1>2 DEF Over, IInv, TypeOK, Image, IndexRow
<1>4. TypeOK'
    BY <1>1, <1>3 DEF IInv, TypeOK
<1>5. Kept' /\ IndexCurrent'
    BY <1>1, <1>2, <1>3 DEF IInv, Kept, IndexCurrent, Exists
<1> QED
    BY <1>1, <1>4, <1>5, UnloggedCall DEF IInv, Exists

\* resolveFormulas keeps the invariant.
LEMMA FormulasIInv ==
    ASSUME IInv, NEW scope \in SUBSET Record,
           \A r \in scope : Exists(r), ResolveFormulas(scope)
    PROVE  IInv'
<1> DEFINE stale == {x \in scope : Resolve(fields[x]) # fields[x]}
           next == [r \in stale |-> Resolve(fields[r])]
<1>1. \A r \in scope : Resolve(fields[r]) \in Content
    BY RecordStoreAssumption DEF IInv, Kept
<1>2. /\ stale \in SUBSET Record /\ \A r \in stale : Exists(r)
      /\ DOMAIN next = stale /\ \A r \in stale : next[r] \in Content
    BY <1>1
<1>3. Rewrite(next, next)
    BY DEF ResolveFormulas
<1> HIDE DEF stale, next
<1> QED
    BY <1>2, <1>3, RewriteIInv

\* resolveLookupRollup keeps it, also when a record of the scope is not of
\* the table.
LEMMA LookupIInv ==
    ASSUME IInv, NEW t \in Table, NEW scope \in SUBSET Record,
           \A r \in scope : Exists(r), ResolveLookupRollup(t, scope)
    PROVE  IInv'
<1> DEFINE stale == {x \in scope : LookUp(t, fields[x], fields) # fields[x]}
           next == [r \in stale |-> LookUp(t, fields[r], fields)]
           index == [r \in stale |-> IF TableOf[r] = t THEN next[r] ELSE Astray]
<1>1. \A r \in scope : LookUp(t, fields[r], fields) \in Content
    BY RecordStoreAssumption DEF IInv, Kept, TypeOK, Image
<1>2. /\ stale \in SUBSET Record /\ \A r \in stale : Exists(r)
      /\ DOMAIN next = stale /\ \A r \in stale : next[r] \in Content
      /\ DOMAIN index = stale /\ \A r \in stale : index[r] \in {next[r], Astray}
    BY <1>1
<1>3. Rewrite(next, index)
    BY DEF ResolveLookupRollup
<1> HIDE DEF stale, next, index
<1> QED
    BY <1>2, <1>3, RewriteIInv

\* Comments touch nothing the invariant is about.
LEMMA CommentIInv ==
    ASSUME IInv, NEW r \in Record, CreateComment(r) \/ DeleteLastComment(r)
    PROVE  IInv'
<1>1. /\ UNCHANGED <<status, fields, fts, trash, batches, undone, history, purged>>
      /\ commented' \in SUBSET Record
    BY DEF CreateComment, DeleteLastComment, IInv, TypeOK
<1>2. TypeOK' /\ Kept' /\ IndexCurrent'
    BY <1>1 DEF IInv, TypeOK, Kept, IndexCurrent, Exists
<1> QED
    BY <1>1, <1>2, UnloggedCall DEF IInv, Exists

\* duplicateTable keeps it: every copy is new, indexed and in the batch.
LEMMA DuplicateIInv ==
    ASSUME IInv, NEW s \in Table, NEW t \in Table, DuplicateTable(s, t)
    PROVE  IInv'
<1>0. PICK copies \in SUBSET RecordsOf(t) : \E origin \in [copies -> Live(s)] :
        /\ Restore([r \in copies |-> fields[origin[r]]])
        /\ Log([r \in copies |-> [before |-> None, after |-> fields[origin[r]]]])
    BY DEF DuplicateTable
<1>1. PICK origin \in [copies -> Live(s)] :
        /\ Restore([r \in copies |-> fields[origin[r]]])
        /\ Log([r \in copies |-> [before |-> None, after |-> fields[origin[r]]]])
    BY <1>0
<1> DEFINE image == [r \in copies |-> fields[origin[r]]]
           b == [r \in copies |-> [before |-> None, after |-> fields[origin[r]]]]
<1>2. copies \subseteq Record
    BY DEF RecordsOf
<1>3. \A r \in copies : fields[origin[r]] \in Content
    BY DEF Live, RecordsOf, IInv, Kept, Exists
<1>4. image \in Images /\ \A r \in DOMAIN image : image[r] # None
    <2>1. image \in [copies -> Image]
        BY <1>3 DEF Image
    <2> QED
        BY <1>2, <1>3, <2>1, RecordStoreAssumption DEF Images
<1>5. b \in Batch /\ DOMAIN b = copies
    <2>1. b \in [copies -> Change]
        BY <1>3 DEF Change, Image
    <2> QED
        BY <1>2, <2>1 DEF Batch
<1>6. DOMAIN image = copies
    OBVIOUS
<1>7. Restore(image) /\ Log(b)
    BY <1>1
<1> HIDE DEF image, b
<1>8. /\ status' \in [Record -> Status]
      /\ fields' \in [Record -> Image]
      /\ fts' \in [Record -> IndexRow]
      /\ Kept' /\ IndexCurrent'
      /\ \A r \in copies : status'[r] = "live"
      /\ \A r \in Record \ copies : status'[r] = status[r]
      /\ \A r \in Record : Exists(r) => Exists(r)'
    BY <1>4, <1>6, <1>7, RestoreFacts DEF IInv
<1>9. UNCHANGED <<trash, undone, commented, history, purged>>
    BY DEF DuplicateTable
<1>10. /\ batches' \in Seq(Batch) /\ undone' \in Seq(DOMAIN batches')
       /\ LogOfRows' /\ UndoneOnce' /\ DeletedRecoverable'
    <2>1. \A r \in DOMAIN b : Exists(r)'
        BY <1>5, <1>8 DEF Exists
    <2>2. \A r \in Record : status'[r] = "deleted" => status[r] = "deleted"
        BY <1>8
    <2> QED
        BY <1>5, <1>7, <1>8, <1>9, <2>1, <2>2, LoggedCall DEF IInv
<1> QED
    BY <1>8, <1>9, <1>10 DEF IInv, TypeOK
\* permanentDeleteTable keeps it: the ops go with their rows, so the log
\* still names rows only.
LEMMA PermanentDeleteIInv ==
    ASSUME IInv, NEW t \in Table, PermanentDeleteTable(t)
    PROVE  IInv'
<1> DEFINE gone == RecordsOf(t)
<1>1. /\ status' \in [Record -> Status]
      /\ fields' \in [Record -> Image]
      /\ fts' \in [Record -> IndexRow]
      /\ \A r \in Record :
            /\ status'[r] = IF r \in gone /\ Exists(r) THEN "purged" ELSE status[r]
            /\ fields'[r] = IF r \in gone THEN None ELSE fields[r]
            /\ fts'[r] = IF r \in gone THEN IF fts[r] = Astray THEN Astray ELSE None
                         ELSE fts[r]
    <2>1. fts' = Over(Unfiled(gone), fts)
        BY DEF PermanentDeleteTable
    <2>2. gone \in SUBSET Record /\ fts \in [Record -> IndexRow]
        BY DEF RecordsOf, IInv, TypeOK
    <2>3. /\ status' \in [Record -> Status]
          /\ fields' \in [Record -> Image]
          /\ \A r \in Record :
                /\ status'[r] = IF r \in gone /\ Exists(r) THEN "purged"
                                ELSE status[r]
                /\ fields'[r] = IF r \in gone THEN None ELSE fields[r]
        BY DEF PermanentDeleteTable, Over, IInv, TypeOK, Status, Image
    <2> QED
        BY <2>1, <2>2, <2>3, UnfiledFacts
<1>2. /\ history' \in [Record -> SUBSET Field]
      /\ commented' \in SUBSET Record
      /\ purged' \in SUBSET Table
      /\ UNCHANGED <<trash, undone>>
    BY DEF PermanentDeleteTable, Over, IInv, TypeOK
<1>3. /\ DOMAIN batches' = DOMAIN batches
      /\ batches' \in Seq(Batch)
      /\ \A k \in DOMAIN batches :
            /\ DOMAIN batches'[k] = DOMAIN batches[k] \ gone
            /\ \A r \in DOMAIN batches'[k] : batches'[k][r] = batches[k][r]
    <2> DEFINE left(k) == [r \in DOMAIN batches[k] \ gone |-> batches[k][r]]
    <2>1. batches' = [k \in DOMAIN batches |-> left(k)]
        BY DEF PermanentDeleteTable
    <2>2. \A k \in DOMAIN batches :
            /\ left(k) \in Batch
            /\ DOMAIN left(k) = DOMAIN batches[k] \ gone
            /\ \A r \in DOMAIN left(k) : left(k)[r] = batches[k][r]
        <3> SUFFICES ASSUME NEW k \in DOMAIN batches
                     PROVE  left(k) \in Batch
            OBVIOUS
        <3> DEFINE S == DOMAIN batches[k] \ gone
        <3>1. batches[k] \in Batch
            BY DEF IInv, TypeOK
        <3>2. S \in SUBSET Record /\ \A r \in S : batches[k][r] \in Change
            BY <3>1, BatchFacts
        <3>3. left(k) \in [S -> Change]
            BY <3>2
        <3> HIDE DEF S, left
        <3> QED
            BY <3>2, <3>3 DEF Batch
    <2>3. DOMAIN batches = 1 .. Len(batches) /\ Len(batches) \in Nat
        BY DEF IInv, TypeOK
    <2> HIDE DEF left
    <2>4. DOMAIN batches' = DOMAIN batches
        BY <2>1
    <2>5. batches' \in Seq(Batch)
        <3>1. batches' \in [1 .. Len(batches) -> Batch]
            BY <2>1, <2>2, <2>3
        <3> QED
            BY <2>3, <3>1, SMT
    <2> QED
        BY <2>1, <2>2, <2>4, <2>5
<1>4. TypeOK'
    BY <1>1, <1>2, <1>3 DEF IInv, TypeOK
<1>5. /\ \A r \in Record : Exists(r)' <=> Exists(r) /\ r \notin gone
      /\ \A k \in DOMAIN batches : DOMAIN batches[k] \subseteq Record
    BY <1>1, BatchFacts DEF Exists, IInv, TypeOK
<1>6. Kept' /\ IndexCurrent'
    BY <1>1, <1>5 DEF IInv, Kept, IndexCurrent, Exists
<1>7. LogOfRows' /\ UndoneOnce'
    BY <1>2, <1>3, <1>5 DEF IInv, LogOfRows, UndoneOnce
<1>8. DeletedRecoverable'
    <2> SUFFICES ASSUME NEW r \in Record, status'[r] = "deleted"
                 PROVE  \/ \E k \in Applied' :
                            r \in DOMAIN batches'[k] /\ batches'[k][r].after = None
                        \/ \E k \in Undone' :
                            r \in DOMAIN batches'[k] /\ batches'[k][r].before = None
        BY DEF DeletedRecoverable
    <2>1. status[r] = "deleted" /\ r \notin gone
        BY <1>1 DEF Exists
    <2>2. /\ Applied' = Applied /\ Undone' = Undone
          /\ Applied \subseteq DOMAIN batches /\ Undone \subseteq DOMAIN batches
        BY <1>2, <1>3 DEF Applied, Undone, IInv, TypeOK
    <2> QED
        BY <1>3, <2>1, <2>2 DEF IInv, DeletedRecoverable
<1> QED
    BY <1>4, <1>6, <1>7, <1>8 DEF IInv

\* undoLastBatch keeps it: a record it deletes was created by the batch it
\* undoes, which redo can reach from now on.
LEMMA UndoIInv ==
    ASSUME IInv, UndoLastBatch
    PROVE  IInv'
<1>1. PICK k \in Applied :
        /\ Restore([r \in DOMAIN batches[k] |-> batches[k][r].before])
        /\ undone' = Append(undone, k)
        /\ UNCHANGED <<trash, batches, commented, history, purged>>
    BY DEF UndoLastBatch
<1> DEFINE image == [r \in DOMAIN batches[k] |-> batches[k][r].before]
<1>2. k \in DOMAIN batches /\ k \notin Undone
    BY DEF Applied
<1>3. batches[k] \in Batch
    BY <1>2 DEF IInv, TypeOK
<1>4. image \in Images
    <2>1. image \in [DOMAIN batches[k] -> Image]
        BY <1>3, BatchFacts
    <2> QED
        BY <1>3, <2>1, BatchFacts DEF Images
<1>5. /\ DOMAIN image = DOMAIN batches[k]
      /\ \A r \in DOMAIN image : image[r] = batches[k][r].before
      /\ \A r \in DOMAIN image : Exists(r)
    BY <1>2 DEF IInv, LogOfRows
<1> HIDE DEF image
<1>6. /\ status' \in [Record -> Status]
      /\ fields' \in [Record -> Image]
      /\ fts' \in [Record -> IndexRow]
      /\ Kept' /\ IndexCurrent'
      /\ \A r \in DOMAIN image :
            status'[r] = IF image[r] = None THEN "deleted" ELSE "live"
      /\ \A r \in Record \ DOMAIN image : status'[r] = status[r]
      /\ \A r \in Record : Exists(r) => Exists(r)'
    <2>1. Restore(image)
        BY <1>1 DEF image
    <2> QED
        BY <1>4, <1>5, <2>1, RestoreFacts DEF IInv
<1>7. /\ undone' \in Seq(DOMAIN batches)
      /\ Undone' = Undone \cup {k}
      /\ UndoneOnce'
    <2>1. undone \in Seq(DOMAIN batches) /\ DOMAIN undone = 1 .. Len(undone)
        BY DEF IInv, TypeOK
    <2>2. /\ undone' \in Seq(DOMAIN batches)
          /\ DOMAIN undone' = 1 .. (Len(undone) + 1)
          /\ \A i \in DOMAIN undone : undone'[i] = undone[i]
          /\ undone'[Len(undone) + 1] = k
        BY <1>1, <1>2, <2>1
    <2>3. Undone' = Undone \cup {k}
        BY <2>1, <2>2 DEF Undone
    <2>4. UndoneOnce'
        BY <1>2, <2>1, <2>2 DEF IInv, Undone, UndoneOnce
    <2> QED
        BY <2>2, <2>3, <2>4
<1>8. TypeOK'
    BY <1>1, <1>6, <1>7 DEF IInv, TypeOK
<1>9. LogOfRows'
    <2>1. \A j \in DOMAIN batches : DOMAIN batches[j] \subseteq Record
        BY BatchFacts DEF IInv, TypeOK
    <2> QED
        BY <1>1, <1>6, <2>1 DEF IInv, LogOfRows
<1>10. DeletedRecoverable'
    <2>1. batches' = batches /\ Applied' = Applied \ {k}
        BY <1>1, <1>7 DEF Applied
    <2> SUFFICES ASSUME NEW r \in Record, status'[r] = "deleted"
                 PROVE  \/ \E j \in Applied' :
                            r \in DOMAIN batches[j] /\ batches[j][r].after = None
                        \/ \E j \in Undone' :
                            r \in DOMAIN batches[j] /\ batches[j][r].before = None
        BY <2>1 DEF DeletedRecoverable
    <2>2. CASE r \in DOMAIN batches[k]
        BY <1>5, <1>6, <1>7, <2>2
    <2>3. CASE r \notin DOMAIN batches[k]
        BY <1>5, <1>6, <1>7, <2>1, <2>3 DEF IInv, DeletedRecoverable
    <2> QED
        BY <2>2, <2>3
<1> QED
    BY <1>6, <1>7, <1>8, <1>9, <1>10 DEF IInv

\* redoLastBatch keeps it: a record it deletes has its delete in the log.
LEMMA RedoIInv ==
    ASSUME IInv, RedoLastBatch
    PROVE  IInv'
<1> DEFINE k == undone[Len(undone)]
           image == [r \in DOMAIN batches[k] |-> batches[k][r].after]
<1>1. /\ undone # <<>>
      /\ Restore(image)
      /\ undone' = SubSeq(undone, 1, Len(undone) - 1)
      /\ UNCHANGED <<trash, batches, commented, history, purged>>
    BY DEF RedoLastBatch
<1>2. /\ k \in DOMAIN batches /\ k \in Undone
      /\ undone' \in Seq(DOMAIN batches)
      /\ Undone' = Undone \ {k}
      /\ UndoneOnce'
    <2>1. /\ undone \in Seq(DOMAIN batches)
          /\ Len(undone) \in Nat \ {0}
          /\ DOMAIN undone = 1 .. Len(undone)
        BY <1>1 DEF IInv, TypeOK
    <2>2. /\ undone' \in Seq(DOMAIN batches)
          /\ DOMAIN undone' = 1 .. (Len(undone) - 1)
          /\ \A i \in DOMAIN undone' : undone'[i] = undone[i]
        BY <1>1, <2>1
    <2>3. k \in DOMAIN batches /\ k \in Undone
        BY <2>1 DEF Undone
    <2>4. UndoneOnce'
        BY <2>1, <2>2 DEF IInv, UndoneOnce
    <2>5. Undone' = Undone \ {k}
        BY <2>1, <2>2 DEF IInv, Undone, UndoneOnce
    <2> QED
        BY <2>2, <2>3, <2>4, <2>5
<1> HIDE DEF k
<1>3. batches[k] \in Batch
    BY <1>2 DEF IInv, TypeOK
<1>4. image \in Images
    <2>1. image \in [DOMAIN batches[k] -> Image]
        BY <1>3, BatchFacts
    <2> QED
        BY <1>3, <2>1, BatchFacts DEF Images
<1>5. /\ DOMAIN image = DOMAIN batches[k]
      /\ \A r \in DOMAIN image : image[r] = batches[k][r].after
      /\ \A r \in DOMAIN image : Exists(r)
    BY <1>2 DEF IInv, LogOfRows
<1> HIDE DEF image
<1>6. /\ status' \in [Record -> Status]
      /\ fields' \in [Record -> Image]
      /\ fts' \in [Record -> IndexRow]
      /\ Kept' /\ IndexCurrent'
      /\ \A r \in DOMAIN image :
            status'[r] = IF image[r] = None THEN "deleted" ELSE "live"
      /\ \A r \in Record \ DOMAIN image : status'[r] = status[r]
      /\ \A r \in Record : Exists(r) => Exists(r)'
    BY <1>1, <1>4, <1>5, RestoreFacts DEF IInv
<1>7. TypeOK'
    BY <1>1, <1>2, <1>6 DEF IInv, TypeOK
<1>8. LogOfRows'
    <2>1. \A j \in DOMAIN batches : DOMAIN batches[j] \subseteq Record
        BY BatchFacts DEF IInv, TypeOK
    <2> QED
        BY <1>1, <1>6, <2>1 DEF IInv, LogOfRows
<1>9. DeletedRecoverable'
    <2>1. batches' = batches /\ Applied' = Applied \cup {k}
        BY <1>1, <1>2 DEF Applied
    <2> SUFFICES ASSUME NEW r \in Record, status'[r] = "deleted"
                 PROVE  \/ \E j \in Applied' :
                            r \in DOMAIN batches[j] /\ batches[j][r].after = None
                        \/ \E j \in Undone' :
                            r \in DOMAIN batches[j] /\ batches[j][r].before = None
        BY <2>1 DEF DeletedRecoverable
    <2>2. CASE r \in DOMAIN batches[k]
        BY <1>5, <1>6, <2>1, <2>2
    <2>3. CASE r \notin DOMAIN batches[k]
        BY <1>2, <1>5, <1>6, <2>1, <2>3 DEF IInv, DeletedRecoverable
    <2> QED
        BY <2>2, <2>3
<1> QED
    BY <1>2, <1>6, <1>7, <1>8, <1>9 DEF IInv

-----------------------------------------------------------------------------
\* Every step keeps the invariant.
LEMMA NextIInv == IInv /\ [Next]_vars => IInv'
<1> SUFFICES ASSUME IInv, [Next]_vars PROVE IInv'
    OBVIOUS
<1>1. CASE UNCHANGED vars
    BY <1>1 DEF vars, IInv, TypeOK, Kept, LogOfRows, UndoneOnce, IndexCurrent,
        DeletedRecoverable, Exists, Applied, Undone
<1>2. ASSUME NEW r \in Record, EditRecord(r)
      PROVE  IInv'
    BY <1>2, CreateIInv, UpdateIInv, DeleteIInv DEF EditRecord
<1>3. ASSUME NEW r \in Record, Exists(r), ResolveFormulas({r})
      PROVE  IInv'
    BY <1>3, FormulasIInv
<1>4. ASSUME NEW r \in Record, NEW t \in Table, Exists(r),
             ResolveLookupRollup(t, {r})
      PROVE  IInv'
    BY <1>4, LookupIInv
<1>5. ASSUME NEW t \in Table, ResolveFormulas(Live(t)) \/ ResolveLookupRollup(t, Live(t))
      PROVE  IInv'
    <2>1. Live(t) \subseteq Record /\ \A r \in Live(t) : Exists(r)
        BY DEF Live, RecordsOf, Exists
    <2> QED
        BY <1>5, <2>1, FormulasIInv, LookupIInv
<1> QED
    BY <1>1, <1>2, <1>3, <1>4, <1>5, CommentIInv, RestoreTrashIInv, RebuildIInv,
       PermanentDeleteIInv, DuplicateIInv, UndoIInv, RedoIInv DEF Next

\* The inductive invariant holds in every reachable state of the store.
THEOREM Invariance == Spec => []IInv
BY InitIInv, NextIInv, PTL DEF Spec

\* The rows, the index, the log and the trash keep their shapes.
THEOREM TypeCorrect == Spec => []TypeOK
BY Invariance, PTL DEF IInv

\* A search finds every live record by its present cells, for any number of
\* records, whatever the calls and however often undone and redone.
THEOREM IndexFollowsRows == Spec => []IndexCurrent
BY Invariance, PTL DEF IInv

\* No deleted record is out of reach of undo and redo.
THEOREM DeletionIsRecoverable == Spec => []DeletedRecoverable
BY Invariance, PTL DEF IInv

-----------------------------------------------------------------------------
(***************************************************************************)
(* The editor.  Where batches lead is read from the log, so that the line  *)
(* of versions can be told from the log alone.                             *)
(***************************************************************************)
Grid == [Record -> Image]

\* Undoing batch t[1] of the log bs takes the grid t[3] to t[2], and redoing
\* it takes t[2] to t[3]; the records it does not touch are the same in both.
StepsOf(bs) ==
    {t \in (DOMAIN bs) \X Grid \X Grid :
        \A r \in Record :
            IF r \in DOMAIN bs[t[1]]
            THEN t[2][r] = bs[t[1]][r].before /\ t[3][r] = bs[t[1]][r].after
            ELSE t[2][r] = t[3][r]}

UInv ==
    /\ IInv
    /\ Walk(Len(batches), undone, line, cursor)
    /\ Leads(line, versions, Grid, StepsOf(batches))
    /\ versions[cursor] = Shown

\* A call of the editor's, as the grid and the log see it.
Makes(b) ==
    /\ b \in Batch
    /\ Log(b)
    /\ undone' = undone
    /\ \A r \in Record :
        IF r \in DOMAIN b
        THEN Shown[r] = b[r].before /\ Shown'[r] = b[r].after
        ELSE Shown'[r] = Shown[r]

\* The grid shows cells or nothing.
LEMMA ShownType ==
    ASSUME NEW st \in [Record -> Status], NEW fs \in [Record -> Image]
    PROVE  ShownIn(st, fs) \in Grid
BY DEF ShownIn, Grid, Image

\* What the grid shows after a restore.
LEMMA ShownRestored ==
    ASSUME TypeOK, Kept, IndexCurrent,
           NEW image \in Images, Restore(image),
           \A r \in DOMAIN image : image[r] = None => Exists(r)
    PROVE  \A r \in Record :
                Shown'[r] = IF r \in DOMAIN image THEN image[r] ELSE Shown[r]
<1>1. /\ \A r \in DOMAIN image :
            status'[r] = IF image[r] = None THEN "deleted" ELSE "live"
      /\ \A r \in Record \ DOMAIN image : status'[r] = status[r]
      /\ \A r \in Record : fields'[r] =
            IF r \in DOMAIN image /\ image[r] # None THEN image[r] ELSE fields[r]
    BY RestoreFacts
<1> QED
    BY <1>1 DEF Shown, ShownIn

\* A created record is not shown before.
LEMMA CreateMakes ==
    ASSUME IInv, NEW r \in Record, NEW cells \in Content, CreateRecord(r, cells)
    PROVE  \E b : Makes(b)
<1> DEFINE image == [x \in {r} |-> cells]
           b == [x \in {r} |-> [before |-> None, after |-> cells]]
<1>1. /\ status[r] = "absent" /\ Restore(image) /\ Log(b) /\ undone' = undone
    BY DEF CreateRecord
<1>2. image \in Images /\ cells # None /\ DOMAIN image = {r} /\ image[r] = cells
    <2>1. image \in [{r} -> Image]
        BY DEF Image
    <2> QED
        BY <2>1, RecordStoreAssumption DEF Images
<1>3. b \in Batch /\ DOMAIN b = {r} /\ b[r].before = None /\ b[r].after = cells
    BY OneOpBatch DEF Image
<1> HIDE DEF image, b
<1>4. \A x \in Record : Shown'[x] = IF x \in {r} THEN image[x] ELSE Shown[x]
    BY <1>1, <1>2, ShownRestored DEF IInv
<1>5. Shown[r] = None
    BY <1>1 DEF Shown, ShownIn
<1>6. Makes(b)
    BY <1>1, <1>2, <1>3, <1>4, <1>5 DEF Makes
<1> QED
    BY <1>6

\* An updated record is shown with its old cells before.
LEMMA UpdateMakes ==
    ASSUME IInv, NEW r \in Record, status[r] = "live",
           NEW patch \in Patches, UpdateRecord(r, patch)
    PROVE  \E b : Makes(b)
<1> DEFINE next == Merge(fields[r], patch)
           b == [x \in {r} |-> [before |-> fields[r], after |-> next]]
<1>1. fields[r] \in Content /\ next \in Content
    BY MergeType DEF UpdateRecord, IInv, Kept
<1>2. b \in Batch /\ DOMAIN b = {r} /\ b[r].before = fields[r] /\ b[r].after = next
    BY <1>1, OneOpBatch DEF Image
<1>3. /\ Log(b) /\ undone' = undone /\ status' = status
      /\ fields' = [fields EXCEPT ![r] = next]
    BY DEF UpdateRecord
<1> HIDE DEF next, b
<1>4. \A x \in Record : Shown'[x] = IF x = r THEN next ELSE Shown[x]
    BY <1>3 DEF IInv, TypeOK, Shown, ShownIn
<1>5. Shown[r] = fields[r]
    BY DEF Shown, ShownIn
<1>6. Makes(b)
    BY <1>2, <1>3, <1>4, <1>5 DEF Makes
<1> QED
    BY <1>6

\* A deleted record is shown before and not after.
LEMMA DeleteMakes ==
    ASSUME IInv, NEW r \in Record, status[r] = "live", DeleteRecord(r)
    PROVE  \E b : Makes(b)
<1> DEFINE b == [x \in {r} |-> [before |-> fields[r], after |-> None]]
<1>1. fields[r] \in Content
    BY DEF DeleteRecord, IInv, Kept
<1>2. b \in Batch /\ DOMAIN b = {r} /\ b[r].before = fields[r] /\ b[r].after = None
    BY <1>1, OneOpBatch DEF Image
<1>3. /\ Log(b) /\ undone' = undone /\ fields' = fields
      /\ status' = [status EXCEPT ![r] = "deleted"]
    BY DEF DeleteRecord
<1> HIDE DEF b
<1>4. \A x \in Record : Shown'[x] = IF x = r THEN None ELSE Shown[x]
    BY <1>3 DEF IInv, TypeOK, Shown, ShownIn
<1>5. Shown[r] = fields[r]
    BY DEF Shown, ShownIn
<1>6. Makes(b)
    BY <1>2, <1>3, <1>4, <1>5 DEF Makes
<1> QED
    BY <1>6

\* The copies of a table are not shown before.
LEMMA DuplicateMakes ==
    ASSUME IInv, NEW s \in Table, NEW t \in Table, DuplicateTable(s, t)
    PROVE  \E b : Makes(b)
<1>0. PICK copies \in SUBSET RecordsOf(t) : \E origin \in [copies -> Live(s)] :
        /\ Restore([r \in copies |-> fields[origin[r]]])
        /\ Log([r \in copies |-> [before |-> None, after |-> fields[origin[r]]]])
    BY DEF DuplicateTable
<1>1. PICK origin \in [copies -> Live(s)] :
        /\ Restore([r \in copies |-> fields[origin[r]]])
        /\ Log([r \in copies |-> [before |-> None, after |-> fields[origin[r]]]])
    BY <1>0
<1> DEFINE image == [r \in copies |-> fields[origin[r]]]
           b == [r \in copies |-> [before |-> None, after |-> fields[origin[r]]]]
<1>2. /\ copies \subseteq Record
      /\ \A r \in copies : status[r] = "absent"
      /\ undone' = undone
    BY DEF DuplicateTable, RecordsOf
<1>3. \A r \in copies : fields[origin[r]] \in Content
    BY DEF Live, RecordsOf, IInv, Kept, Exists
<1>4. image \in Images /\ \A r \in DOMAIN image : image[r] # None
    <2>1. image \in [copies -> Image]
        BY <1>3 DEF Image
    <2> QED
        BY <1>2, <1>3, <2>1, RecordStoreAssumption DEF Images
<1>5. b \in Batch /\ DOMAIN b = copies
    <2>1. b \in [copies -> Change]
        BY <1>3 DEF Change, Image
    <2> QED
        BY <1>2, <2>1 DEF Batch
<1>6. /\ DOMAIN image = copies
      /\ \A r \in copies : b[r].before = None /\ b[r].after = image[r]
    OBVIOUS
<1>7. Restore(image) /\ Log(b)
    BY <1>1
<1> HIDE DEF image, b
<1>8. \A x \in Record : Shown'[x] = IF x \in copies THEN image[x] ELSE Shown[x]
    BY <1>4, <1>6, <1>7, ShownRestored DEF IInv
<1>9. \A r \in copies : Shown[r] = None
    BY <1>2 DEF Shown, ShownIn
<1>10. Makes(b)
    BY <1>2, <1>5, <1>6, <1>7, <1>8, <1>9 DEF Makes
<1> QED
    BY <1>10

\* The steps of a log do not change when a batch is added.
LEMMA StepsKept ==
    ASSUME NEW bs, NEW cs, NEW l, NEW vs,
           DOMAIN bs \subseteq DOMAIN cs,
           \A k \in DOMAIN bs : cs[k] = bs[k],
           Leads(l, vs, Grid, StepsOf(bs))
    PROVE  \A i \in 1..Len(l) : <<l[i], vs[i], vs[i + 1]>> \in StepsOf(cs)
<1> SUFFICES ASSUME NEW i \in 1..Len(l)
             PROVE  <<l[i], vs[i], vs[i + 1]>> \in StepsOf(cs)
    OBVIOUS
<1>1. <<l[i], vs[i], vs[i + 1]>> \in StepsOf(bs)
    BY DEF Leads
<1> QED
    BY <1>1 DEF StepsOf

\* A batch that is made leads from the grid shown to the next.
LEMMA MadeStep ==
    ASSUME NEW bs, NEW k \in DOMAIN bs, NEW b, bs[k] = b,
           NEW v \in Grid, NEW w \in Grid,
           \A r \in Record :
                IF r \in DOMAIN b THEN v[r] = b[r].before /\ w[r] = b[r].after
                ELSE w[r] = v[r]
    PROVE  <<k, v, w>> \in StepsOf(bs)
BY DEF StepsOf

\* An edit adds its batch and its grid to the line.
LEMMA EditUInv ==
    ASSUME UInv, IInv', Edit
    PROVE  UInv' /\ History!Edit
<1>1. PICK b : Makes(b)
    BY CreateMakes, UpdateMakes, DeleteMakes, DuplicateMakes DEF Edit, UInv
<1>2. /\ versions' = Append(SubSeq(versions, 1, cursor), Shown')
      /\ line' = Append(SubSeq(line, 1, cursor - 1), Len(batches) + 1)
      /\ cursor' = cursor + 1
    BY DEF Edit, Shown
<1>3. /\ b \in Batch /\ undone' = undone
      /\ batches' \in Seq(Batch) /\ batches' = Append(batches, b)
      /\ DOMAIN batches' = DOMAIN batches \cup {Len(batches) + 1}
      /\ \A k \in DOMAIN batches : batches'[k] = batches[k]
      /\ batches'[Len(batches) + 1] = b
    BY <1>1, LogFacts DEF Makes, Log, UInv, IInv, TypeOK
<1>4. Len(batches') = Len(batches) + 1
    BY <1>3 DEF UInv, IInv, TypeOK
<1>5. Shown \in Grid /\ Shown' \in Grid
    BY ShownType DEF UInv, IInv, TypeOK, Shown
<1>6. Walk(Len(batches'), undone', line', cursor')
    BY <1>2, <1>3, <1>4, WalkEdit DEF UInv
<1>7. /\ line \in Seq(1..Len(batches)) /\ cursor \in 1..(Len(line) + 1)
      /\ Len(line) \in Nat
    BY WalkTypes DEF UInv
<1>8. PICK bs : bs = batches'
    OBVIOUS
<1>9. PICK w : w = Shown'
    OBVIOUS
<1>10. <<Len(batches) + 1, versions[cursor], w>> \in StepsOf(bs)
    <2>1. \A r \in Record :
            IF r \in DOMAIN b
            THEN versions[cursor][r] = b[r].before /\ w[r] = b[r].after
            ELSE w[r] = versions[cursor][r]
        BY <1>1, <1>9 DEF Makes, UInv
    <2>2. versions[cursor] \in Grid /\ w \in Grid
        BY <1>5, <1>9 DEF UInv
    <2>3. Len(batches) + 1 \in DOMAIN bs /\ bs[Len(batches) + 1] = b
        BY <1>3, <1>8
    <2> QED
        BY <2>1, <2>2, <2>3, MadeStep
<1>11. \A i \in 1..Len(line) : <<line[i], versions[i], versions[i + 1]>> \in StepsOf(bs)
    BY <1>3, <1>8, StepsKept DEF UInv
<1>12. Leads(Append(SubSeq(line, 1, cursor - 1), Len(batches) + 1),
             Append(SubSeq(versions, 1, cursor), w), Grid, StepsOf(bs))
    BY <1>5, <1>7, <1>9, <1>10, <1>11, LeadsEdit DEF UInv
<1>13. Leads(line', versions', Grid, StepsOf(batches'))
    BY <1>2, <1>8, <1>9, <1>12
<1>14. versions'[cursor'] = Shown'
    <2>1. versions \in Seq(Grid) /\ Len(versions) = Len(line) + 1
        BY DEF UInv, Leads
    <2>2. SubSeq(versions, 1, cursor) \in Seq(Grid) /\ Len(SubSeq(versions, 1, cursor)) = cursor
        BY <1>7, <2>1
    <2> QED
        BY <1>2, <1>5, <2>2
<1>15. History!Edit
    BY <1>2, <1>5 DEF History!Edit, Grid
<1> QED
    BY <1>6, <1>13, <1>14, <1>15 DEF UInv

\* What is applied is what is not marked undone.
LEMMA AppliedFacts ==
    ASSUME batches \in Seq(Batch), undone \in Seq(DOMAIN batches)
    PROVE  /\ DOMAIN batches = 1..Len(batches) /\ Len(batches) \in Nat
           /\ \A k : k \in Applied <=>
                k \in 1..Len(batches) /\ \A i \in 1..Len(undone) : undone[i] # k
<1>1. /\ DOMAIN batches = 1..Len(batches) /\ Len(batches) \in Nat
      /\ DOMAIN undone = 1..Len(undone)
    OBVIOUS
<1>2. \A k : k \in Undone <=> \E i \in 1..Len(undone) : undone[i] = k
    BY <1>1 DEF Undone
<1> QED
    BY <1>1, <1>2 DEF Applied

\* Two grids that agree on every record are one.
LEMMA GridsEqual ==
    ASSUME NEW v \in Grid, NEW w \in Grid, \A r \in Record : v[r] = w[r]
    PROVE  v = w
BY DEF Grid

\* Undo shows the version before the last edit in force.
LEMMA UndoUInv ==
    ASSUME UInv, IInv', Undo
    PROVE  UInv' /\ History!Undo
<1>1. PICK k \in Applied :
        /\ \A j \in Applied : j <= k
        /\ Restore([r \in DOMAIN batches[k] |-> batches[k][r].before])
        /\ undone' = Append(undone, k)
        /\ UNCHANGED <<trash, batches, commented, history, purged>>
    BY DEF Undo, UndoLastBatch
<1>2. cursor' = cursor - 1 /\ versions' = versions /\ line' = line
    BY DEF Undo
<1>3. /\ DOMAIN batches = 1..Len(batches)
      /\ \A j : j \in Applied <=>
            j \in 1..Len(batches) /\ \A i \in 1..Len(undone) : undone[i] # j
    BY AppliedFacts DEF UInv, IInv, TypeOK
<1>4. /\ cursor > 1 /\ line[cursor - 1] = k
      /\ Walk(Len(batches), Append(undone, k), line, cursor - 1)
    <2>1. /\ k \in 1..Len(batches)
          /\ \A i \in 1..Len(undone) : undone[i] # k
          /\ \A j \in 1..Len(batches) :
                (\A i \in 1..Len(undone) : undone[i] # j) => j <= k
        BY <1>1, <1>3
    <2> QED
        BY <2>1, WalkUndo DEF UInv
<1>5. /\ cursor - 1 \in 1..Len(line) /\ (cursor - 1) + 1 = cursor
      /\ cursor \in Nat
    <2>1. cursor \in 1..(Len(line) + 1) /\ Len(line) \in Nat
        BY WalkTypes DEF UInv
    <2> QED
        BY <1>4, <2>1
<1>6. <<k, versions[cursor - 1], versions[cursor]>> \in StepsOf(batches)
    <2>1. \A i \in 1..Len(line) : <<line[i], versions[i], versions[i + 1]>> \in StepsOf(batches)
        BY DEF UInv, Leads
    <2>2. <<line[cursor - 1], versions[cursor - 1], versions[(cursor - 1) + 1]>> \in StepsOf(batches)
        BY <1>5, <2>1
    <2> QED
        BY <1>4, <1>5, <2>2
<1>7. /\ versions[cursor - 1] \in Grid
      /\ \A r \in Record :
            IF r \in DOMAIN batches[k]
            THEN versions[cursor - 1][r] = batches[k][r].before
            ELSE versions[cursor - 1][r] = Shown[r]
    BY <1>6 DEF StepsOf, UInv
<1> DEFINE image == [r \in DOMAIN batches[k] |-> batches[k][r].before]
<1>8. batches[k] \in Batch
    BY <1>1, <1>3 DEF UInv, IInv, TypeOK
<1>9. image \in Images
    <2>1. image \in [DOMAIN batches[k] -> Image]
        BY <1>8, BatchFacts
    <2> QED
        BY <1>8, <2>1, BatchFacts DEF Images
<1>10. /\ DOMAIN image = DOMAIN batches[k]
       /\ \A r \in DOMAIN image : image[r] = batches[k][r].before
       /\ \A r \in DOMAIN image : Exists(r)
    BY <1>1, <1>3 DEF UInv, IInv, LogOfRows
<1>11. Restore(image)
    BY <1>1
<1> HIDE DEF image
<1>12. \A r \in Record : Shown'[r] = IF r \in DOMAIN image THEN image[r] ELSE Shown[r]
    BY <1>9, <1>10, <1>11, ShownRestored DEF UInv, IInv
<1>13. Shown' = versions[cursor - 1]
    <2>1. Shown' \in Grid
        BY ShownType DEF IInv, TypeOK, Shown
    <2>2. \A r \in Record : Shown'[r] = versions[cursor - 1][r]
        BY <1>7, <1>10, <1>12
    <2> QED
        BY <1>7, <2>1, <2>2, GridsEqual
<1>14. UInv'
    <2>1. batches' = batches /\ undone' = Append(undone, k)
        BY <1>1
    <2> QED
        BY <1>2, <1>4, <1>13, <2>1 DEF UInv
<1>15. History!Undo
    BY <1>2, <1>4, <1>13 DEF History!Undo
<1> QED
    BY <1>14, <1>15

\* Redo, before a newer edit, shows the version after.
LEMMA RedoUInv ==
    ASSUME UInv, IInv', Redo
    PROVE  UInv' /\ History!Redo
<1> DEFINE k == undone[Len(undone)]
           image == [r \in DOMAIN batches[k] |-> batches[k][r].after]
<1>1. /\ undone # <<>>
      /\ \A j \in Applied : j < k
      /\ Restore(image)
      /\ undone' = SubSeq(undone, 1, Len(undone) - 1)
      /\ UNCHANGED <<trash, batches, commented, history, purged>>
    BY DEF Redo, RedoLastBatch
<1>2. cursor' = cursor + 1 /\ versions' = versions /\ line' = line
    BY DEF Redo
<1>3. /\ DOMAIN batches = 1..Len(batches)
      /\ \A j : j \in Applied <=>
            j \in 1..Len(batches) /\ \A i \in 1..Len(undone) : undone[i] # j
    BY AppliedFacts DEF UInv, IInv, TypeOK
<1>4. /\ cursor < Len(line) + 1 /\ line[cursor] = k
      /\ Walk(Len(batches), SubSeq(undone, 1, Len(undone) - 1), line, cursor + 1)
    BY <1>1, <1>3, WalkRedo DEF UInv
<1> HIDE DEF k
<1>5. cursor \in 1..Len(line) /\ cursor \in Nat /\ Len(line) \in Nat
    <2>1. cursor \in 1..(Len(line) + 1) /\ Len(line) \in Nat
        BY WalkTypes DEF UInv
    <2> QED
        BY <1>4, <2>1
<1>6. <<k, versions[cursor], versions[cursor + 1]>> \in StepsOf(batches)
    <2>1. \A i \in 1..Len(line) : <<line[i], versions[i], versions[i + 1]>> \in StepsOf(batches)
        BY DEF UInv, Leads
    <2> QED
        BY <1>4, <1>5, <2>1
<1>7. /\ versions[cursor + 1] \in Grid
      /\ \A r \in Record :
            IF r \in DOMAIN batches[k]
            THEN versions[cursor + 1][r] = batches[k][r].after
            ELSE versions[cursor + 1][r] = Shown[r]
    BY <1>6 DEF StepsOf, UInv
<1>8. k \in DOMAIN batches /\ batches[k] \in Batch
    BY <1>6 DEF StepsOf, UInv, IInv, TypeOK
<1>9. image \in Images
    <2>1. image \in [DOMAIN batches[k] -> Image]
        BY <1>8, BatchFacts
    <2> QED
        BY <1>8, <2>1, BatchFacts DEF Images
<1>10. /\ DOMAIN image = DOMAIN batches[k]
       /\ \A r \in DOMAIN image : image[r] = batches[k][r].after
       /\ \A r \in DOMAIN image : Exists(r)
    BY <1>8 DEF UInv, IInv, LogOfRows
<1> HIDE DEF image
<1>11. \A r \in Record : Shown'[r] = IF r \in DOMAIN image THEN image[r] ELSE Shown[r]
    BY <1>1, <1>9, <1>10, ShownRestored DEF UInv, IInv
<1>12. Shown' = versions[cursor + 1]
    <2>1. Shown' \in Grid
        BY ShownType DEF IInv, TypeOK, Shown
    <2>2. \A r \in Record : Shown'[r] = versions[cursor + 1][r]
        BY <1>7, <1>10, <1>11
    <2> QED
        BY <1>7, <2>1, <2>2, GridsEqual
<1>13. UInv'
    BY <1>1, <1>2, <1>4, <1>12 DEF UInv
<1>14. History!Redo
    <2>1. Len(versions) = Len(line) + 1
        BY DEF UInv, Leads
    <2> QED
        BY <1>2, <1>4, <1>12, <2>1 DEF History!Redo
<1> QED
    BY <1>13, <1>14

\* Calls aside are not shown, and not logged.
LEMMA AsideUInv ==
    ASSUME UInv, IInv', Aside
    PROVE  UInv' /\ UNCHANGED History!hvars
<1>1. UNCHANGED <<status, fields, batches, undone, versions, line, cursor>>
    BY DEF Aside, RebuildSearchIndex, CreateComment, DeleteLastComment
<1> QED
    BY <1>1 DEF UInv, Shown, ShownIn, History!hvars

\* An empty grid is where the line begins.
LEMMA InitUInv == UInit => UInv /\ History!Init
<1> SUFFICES ASSUME UInit PROVE UInv /\ History!Init
    OBVIOUS
<1>1. IInv
    BY InitIInv DEF UInit
<1>2. Shown \in Grid
    BY <1>1, ShownType DEF IInv, TypeOK, Shown
<1>3. batches = <<>> /\ undone = <<>> /\ line = <<>> /\ cursor = 1 /\ versions = <<Shown>>
    BY DEF UInit, Init
<1>4. Walk(Len(batches), undone, line, cursor)
    BY <1>3 DEF Walk
<1>5. Leads(line, versions, Grid, StepsOf(batches))
    BY <1>2, <1>3 DEF Leads
<1> QED
    BY <1>1, <1>2, <1>3, <1>4, <1>5 DEF UInv, History!Init, Grid

\* The editor's steps are steps of the store, and of the abstract history.
LEMMA NextUInv ==
    ASSUME UInv, [UNext]_uvars
    PROVE  UInv' /\ [History!Next]_(History!hvars)
<1>1. CASE UNCHANGED uvars
    <2>1. UNCHANGED <<vars, versions, line, cursor>>
        BY <1>1 DEF uvars
    <2>2. IInv'
        BY <2>1, NextIInv DEF UInv
    <2> QED
        BY <2>1, <2>2 DEF UInv, vars, Shown, ShownIn, History!hvars
<1>2. CASE UNext
    <2>1. Next
        BY <1>2 DEF UNext, Edit, Undo, Redo, Aside, Next, EditRecord
    <2>2. IInv'
        BY <2>1, NextIInv DEF UInv
    <2> QED
        BY <1>2, <2>2, EditUInv, UndoUInv, RedoUInv, AsideUInv DEF UNext, History!Next
<1> QED
    BY <1>1, <1>2

\* Whatever the records, the cells and the mix of creates, updates, deletes,
\* table copies, undos and redos, the grid is the version the cursor stands
\* on: the store under the editor's habits implements EditHistory.
THEOREM EditHistoryWalked == USpec => WalksEditHistory
<1>1. USpec => []UInv
    <2>1. UInit => UInv
        BY InitUInv
    <2>2. UInv /\ [UNext]_uvars => UInv'
        BY NextUInv
    <2> QED
        BY <2>1, <2>2, PTL DEF USpec
<1>2. UInit => History!Init
    BY InitUInv
<1>3. UInv /\ [UNext]_uvars => [History!Next]_(History!hvars)
    BY NextUInv
<1> QED
    BY <1>1, <1>2, <1>3, PTL DEF USpec, WalksEditHistory, History!Spec
=============================================================================
