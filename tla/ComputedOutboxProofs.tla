------------------------ MODULE ComputedOutboxProofs ------------------------
(***************************************************************************)
(* The computed outbox for any number of records, stages, rows, workers    *)
(* and faults: its types, what a claimed item and its row agree on, what a *)
(* live lease is worth, that merging forgets no seed; then what it means   *)
(* for the computed cells: they behave as ComputedCells says, and no work  *)
(* is lost.                                                                *)
(***************************************************************************)
EXTENDS ComputedOutbox, FiniteSetTheorems, TLAPS

Jobs == [phase : Phase, item : Item, chunks : Seq(SUBSET Record),
         next : Nat \ {0}, reads : [Record -> Version]]

\* What `crossed' and `forgotten' remember.
Marks == Stage \X Record \X Version

\* A worker is at an item it holds.
AtHeldItem == \A w \in Worker : job[w].phase # "idle" => job[w].item \in hold[w]

\* The chunks of a worker that splits are those of its item.
ChunksOfItem ==
  \A w \in Worker : job[w].phase = "splitting" =>
    job[w].item.seeds = UNION {job[w].chunks[i] : i \in 1..Len(job[w].chunks)}

BaseInv == TypeOK /\ AtHeldItem /\ ChunksOfItem /\ HeldAsStored

\* A merge into the row forgets no seed.
Keeps(row) == ~(row.stage \in SeedStages /\ row.spilled)

\* ob becomes new by a row y that names S at stage s: a new row, or a pending one that
\* keeps what it named, but for a seed task whose seeds were spilled.
Enqueued(ob, new, y, s, S) ==
  /\ y \in TaskId
  /\ new \in [TaskId -> Row]
  /\ \A t \in TaskId \ {y} : new[t] = ob[t]
  /\ new[y].status = "pending" /\ new[y].stage = s /\ S \subseteq new[y].seeds
  /\ \/ ob[y].status = "absent"
     \/ /\ ob[y].status = "pending" /\ ob[y].stage = s
        /\ Keeps(ob[y]) => ob[y].seeds \subseteq new[y].seeds

-----------------------------------------------------------------------------
(***************************************************************************)
(* The operators on rows.                                                  *)
(***************************************************************************)
LEMMA RowsOfSeeds ==
  ASSUME NEW S \in SUBSET Record
  PROVE  IsFiniteSet(S) /\ Cardinality(S) \in Nat
BY FS_Subset, FS_CardinalityType, OutboxAssumption DEF OutboxAssumption

LEMMA NewRowType ==
  ASSUME NEW s \in Stage, NEW p \in Seq(Nat), NEW S \in SUBSET Record
  PROVE  /\ NewRow(s, p, S) \in Row
         /\ NewRow(s, p, S).status = "pending" /\ NewRow(s, p, S).stage = s
         /\ NewRow(s, p, S).seeds = S
<1>1. (Cardinality(S) > InlineLimit) \in BOOLEAN /\ 0 \in 0..MaxAttempts
  BY RowsOfSeeds, OutboxAssumption DEF OutboxAssumption
<1> QED
  BY <1>1 DEF NewRow, Row, Status

\* What Replay writes.
LEMMA ReplayedType ==
  ASSUME NEW s \in Stage, NEW p \in Seq(Nat), NEW S \in SUBSET Record
  PROVE  LET new == [NewRow(s, p, S) EXCEPT !.spilled = FALSE]
         IN  /\ new \in Row /\ new.status = "pending" /\ new.stage = s /\ new.seeds = S
<1> PICK row : row = NewRow(s, p, S)
  OBVIOUS
<1>1. row \in Row /\ row.status = "pending" /\ row.stage = s /\ row.seeds = S
  BY NewRowType
<1>2. LET new == [row EXCEPT !.spilled = FALSE]
      IN  /\ new \in Row /\ new.status = "pending" /\ new.stage = s /\ new.seeds = S
  BY <1>1 DEF Row
<1> QED
  BY <1>2

LEMMA AbsentType == Absent \in Row /\ Absent.status = "absent"
<1>1. 1 \in Stage /\ <<>> \in Seq(Nat) /\ {} \in SUBSET Record
  BY OutboxAssumption DEF OutboxAssumption, Stage
<1>2. NewRow(1, <<>>, {}) \in Row
  BY <1>1, NewRowType
<1> QED
  BY <1>2 DEF Absent, Row, Status

LEMMA MergedFacts ==
  ASSUME NEW row \in Row, row.status = "pending", NEW S \in SUBSET Record
  PROVE  /\ Merged(row, S) \in Row
         /\ Merged(row, S).status = "pending" /\ Merged(row, S).stage = row.stage
         /\ S \subseteq Merged(row, S).seeds
         /\ Keeps(row) => row.seeds \subseteq Merged(row, S).seeds
<1> DEFINE all   == KnownToMerge(row) \cup S
           spill == Cardinality(all) > InlineLimit
           kept  == IF spill /\ row.spilled THEN row.seeds \cup all ELSE all
<1>1. /\ all \in SUBSET Record /\ S \subseteq all
      /\ Keeps(row) => row.seeds \subseteq all
  BY DEF KnownToMerge, Keeps, Row
<1>2. spill \in BOOLEAN
  BY <1>1, RowsOfSeeds, OutboxAssumption DEF OutboxAssumption
<1> HIDE DEF all, spill
<1>3. /\ kept \in SUBSET Record /\ S \subseteq kept
      /\ Keeps(row) => row.seeds \subseteq kept
  BY <1>1 DEF Row
<1>4. Merged(row, S) = [row EXCEPT !.seeds = kept, !.spilled = spill]
  BY DEF Merged, all, spill
<1> HIDE DEF kept
<1> QED
  BY <1>2, <1>3, <1>4 DEF Row

\* enqueueOrMerge, whichever it does.
LEMMA EnqueueLands ==
  ASSUME NEW ob \in [TaskId -> Row], NEW s \in Stage, NEW p \in Seq(Nat),
         NEW S \in SUBSET Record, CanEnqueue(ob, s, p)
  PROVE  \E y \in TaskId : Enqueued(ob, EnqueueOrMerge(ob, s, p, S), y, s, S)
<1>1. CASE Pending(ob, s, p) # {}
  <2> PICK y : y = CHOOSE t \in Pending(ob, s, p) : TRUE
    OBVIOUS
  <2>1. y \in Pending(ob, s, p)
    BY <1>1
  <2>2. y \in TaskId /\ ob[y].status = "pending" /\ ob[y].stage = s /\ ob[y] \in Row
    BY <2>1 DEF Pending
  <2>3. EnqueueOrMerge(ob, s, p, S) = [ob EXCEPT ![y] = Merged(ob[y], S)]
    BY <1>1, <2>2 DEF EnqueueOrMerge
  <2> PICK m : m = Merged(ob[y], S)
    OBVIOUS
  <2>4. /\ m \in Row /\ m.status = "pending" /\ m.stage = s /\ S \subseteq m.seeds
        /\ Keeps(ob[y]) => ob[y].seeds \subseteq m.seeds
    BY <2>2, MergedFacts
  <2>5. Enqueued(ob, [ob EXCEPT ![y] = m], y, s, S)
    BY <2>2, <2>4 DEF Enqueued
  <2> QED
    BY <2>2, <2>3, <2>5
<1>2. CASE Pending(ob, s, p) = {}
  <2> PICK y : y = CHOOSE t \in FreeIds(ob) : TRUE
    OBVIOUS
  <2>1. y \in FreeIds(ob)
    BY <1>2 DEF CanEnqueue
  <2>2. y \in TaskId /\ ob[y].status = "absent"
    BY <2>1 DEF FreeIds
  <2>3. EnqueueOrMerge(ob, s, p, S) = [ob EXCEPT ![y] = NewRow(s, p, S)]
    BY <1>2 DEF EnqueueOrMerge
  <2> PICK m : m = NewRow(s, p, S)
    OBVIOUS
  <2>4. m \in Row /\ m.status = "pending" /\ m.stage = s /\ S \subseteq m.seeds
    BY NewRowType
  <2>5. Enqueued(ob, [ob EXCEPT ![y] = m], y, s, S)
    BY <2>2, <2>4 DEF Enqueued
  <2> QED
    BY <2>2, <2>3, <2>5
<1> QED
  BY <1>1, <1>2

LEMMA DeleteFacts ==
  ASSUME NEW ob \in [TaskId -> Row], NEW t \in TaskId
  PROVE  /\ Delete(ob, t) \in [TaskId -> Row]
         /\ Delete(ob, t)[t].status = "absent"
         /\ \A u \in TaskId \ {t} : Delete(ob, t)[u] = ob[u]
BY AbsentType DEF Delete

LEMMA ToPendingFacts ==
  ASSUME NEW row \in Row, NEW n \in 0..MaxAttempts
  PROVE  /\ ToPending(row, n) \in Row
         /\ ToPending(row, n).status = "pending" /\ ToPending(row, n).stage = row.stage
         /\ ToPending(row, n).seeds = row.seeds
BY DEF ToPending, Row, Status

LEMMA ClaimedFacts ==
  ASSUME NEW row \in Row, NEW w \in Worker
  PROVE  /\ Claimed(row, w) \in Row
         /\ Claimed(row, w).status = "processing" /\ Claimed(row, w).owner = w
         /\ Claimed(row, w).stage = row.stage /\ Claimed(row, w).seeds = row.seeds
         /\ Claimed(row, w).path = row.path /\ Claimed(row, w).attempts = row.attempts
BY DEF Claimed, Row, Status

LEMMA FreshFacts ==
  ASSUME NEW row \in Row, NEW b \in BOOLEAN
  PROVE  LET new == [row EXCEPT !.fresh = b]
         IN  /\ new \in Row /\ new.status = row.status /\ new.owner = row.owner
             /\ new.stage = row.stage /\ new.seeds = row.seeds
             /\ new.path = row.path /\ new.attempts = row.attempts
BY DEF Row

\* splitSeedRecordDtos loses no seed.
LEMMA ChunksFacts ==
  ASSUME NEW S \in SUBSET Record, NEW s \in Stage
  PROVE  LET f == ChunksOf(S, SeedCap[s])
         IN  f \in Seq(SUBSET Record) /\ S = UNION {f[i] : i \in 1..Len(f)}
<1> DEFINE n == SeedCap[s]
           c == (Cardinality(S) + n - 1) \div n
           f == ChunksOf(S, n)
<1>1. n \in Nat \ {0} /\ Cardinality(S) \in Nat
  BY RowsOfSeeds, OutboxAssumption DEF OutboxAssumption
<1>2. c \in Nat
  BY <1>1
<1>3. f \in Chunkings(S, n)
  BY ChunksAssumption DEF ChunksAssumption
<1>4. f \in [1..c -> SUBSET S] /\ UNION {f[i] : i \in 1..c} = S
  BY <1>3 DEF Chunkings
<1> HIDE DEF c, f
<1>5. f \in Seq(SUBSET Record) /\ Len(f) = c
  BY <1>2, <1>4
<1> QED
  BY <1>4, <1>5 DEF f

-----------------------------------------------------------------------------
(***************************************************************************)
(* What every step but a claim does to rows and workers.                   *)
(***************************************************************************)
\* A row in processing was in processing already, and is what it was up to its lease.
Settled(t) ==
  outbox'[t].status = "processing" =>
    /\ outbox[t].status = "processing" /\ outbox'[t].owner = outbox[t].owner
    /\ outbox'[t].stage = outbox[t].stage /\ outbox'[t].path = outbox[t].path
    /\ outbox'[t].seeds = outbox[t].seeds /\ outbox'[t].attempts = outbox[t].attempts

\* Nothing but the lease.
SameRow(t) ==
  /\ outbox'[t].status = outbox[t].status /\ outbox'[t].owner = outbox[t].owner
  /\ outbox'[t].stage = outbox[t].stage /\ outbox'[t].path = outbox[t].path
  /\ outbox'[t].seeds = outbox[t].seeds /\ outbox'[t].attempts = outbox[t].attempts

LEMMA SettledKeepsHeld ==
  ASSUME HeldAsStored, TypeOK, \A t \in TaskId : Settled(t),
         \A w \in Worker : hold'[w] \subseteq hold[w]
  PROVE  HeldAsStored'
<1> SUFFICES ASSUME NEW w \in Worker, NEW i \in hold'[w], Owns(w, i.task)'
             PROVE  (i = ItemOf(i.task))'
  BY DEF HeldAsStored
<1>1. i \in hold[w] /\ i.task \in TaskId
  BY DEF TypeOK, Item
<1>2. Settled(i.task) /\ outbox'[i.task].status = "processing" /\ outbox'[i.task].owner = w
  BY <1>1 DEF Owns
<1>3. Owns(w, i.task)
  BY <1>2 DEF Settled, Owns
<1>4. i = ItemOf(i.task)
  BY <1>1, <1>3 DEF HeldAsStored
<1> QED
  BY <1>2, <1>4 DEF Settled, ItemOf

LEMMA IdleType == NoItem \in Item /\ NoReads \in [Record -> Version] /\ Idle \in Jobs
<1>1. /\ 0 \in Version /\ 0 \in 0..MaxAttempts /\ 1 \in Stage
      /\ (CHOOSE t \in TaskId : TRUE) \in TaskId
  BY OutboxAssumption DEF OutboxAssumption, Version, Stage
<1>2. NoItem \in Item
  BY <1>1 DEF NoItem, Item
<1>3. NoReads \in [Record -> Version]
  BY <1>1 DEF NoReads
<1>4. <<>> \in Seq(SUBSET Record) /\ "idle" \in Phase
  BY DEF Phase
<1> QED
  BY <1>2, <1>3, <1>4 DEF Idle, Jobs

LEMMA TypesUnfold ==
  /\ TypeOK <=>
       /\ src \in [Record -> Version]
       /\ comp \in [Stage -> [Record -> Version]]
       /\ outbox \in [TaskId -> Row]
       /\ dead \subseteq Letter
       /\ hold \in [Worker -> SUBSET Item]
       /\ job \in [Worker -> Jobs]
       /\ faults \in 0..MaxFaults
       /\ crossed \subseteq Marks /\ forgotten \subseteq Marks
  /\ TypeOK' <=>
       /\ src' \in [Record -> Version]
       /\ comp' \in [Stage -> [Record -> Version]]
       /\ outbox' \in [TaskId -> Row]
       /\ dead' \subseteq Letter
       /\ hold' \in [Worker -> SUBSET Item]
       /\ job' \in [Worker -> Jobs]
       /\ faults' \in 0..MaxFaults
       /\ crossed' \subseteq Marks /\ forgotten' \subseteq Marks
BY DEF TypeOK, Jobs, Marks

LEMMA InType ==
  ASSUME TypeOK, NEW s \in Stage, NEW r \in Record
  PROVE  In(s, r) \in Version
<1>1. CASE s = 1
  BY <1>1 DEF In, TypeOK
<1>2. CASE s # 1
  <2>1. s - 1 \in Stage
    BY <1>2, OutboxAssumption DEF Stage, OutboxAssumption
  <2> QED
    BY <1>2, <2>1 DEF In, TypeOK
<1> QED
  BY <1>1, <1>2

LEMMA InTypeNext ==
  ASSUME src' \in [Record -> Version], comp' \in [Stage -> [Record -> Version]],
         NEW s \in Stage, NEW r \in Record
  PROVE  In(s, r)' \in Version
<1>1. CASE s = 1
  BY <1>1 DEF In
<1>2. CASE s # 1
  <2>1. s - 1 \in Stage
    BY <1>2, OutboxAssumption DEF Stage, OutboxAssumption
  <2> QED
    BY <1>2, <2>1 DEF In
<1> QED
  BY <1>1, <1>2

\* What the merges forget is a record and its input.
LEMMA RememberType ==
  ASSUME TypeOK, Remember,
         src' \in [Record -> Version], comp' \in [Stage -> [Record -> Version]]
  PROVE  forgotten' \subseteq Marks
<1>1. ASSUME NEW s \in SeedStages, NEW r \in Dropped(s) PROVE <<s, r, In(s, r)'>> \in Marks
  <2>1. s \in Stage /\ r \in Record
    BY OutboxAssumption, TypesUnfold DEF OutboxAssumption, Dropped, Row
  <2> QED
    BY <2>1, InTypeNext DEF Marks
<1> QED
  BY <1>1, TypesUnfold DEF Remember

\* The worker and its item, wherever it is at it.
LEMMA AtItem ==
  ASSUME BaseInv, NEW w \in Worker
  PROVE  /\ job[w] \in Jobs /\ job[w].item \in Item
         /\ job[w].item.task \in TaskId /\ job[w].item.stage \in Stage
         /\ job[w].item.path \in Seq(Nat) /\ job[w].item.seeds \in SUBSET Record
         /\ job[w].reads \in [Record -> Version]
         /\ job[w].phase # "idle" => job[w].item \in hold[w]
         /\ job[w].phase # "idle" /\ Owns(w, job[w].item.task) =>
              job[w].item = ItemOf(job[w].item.task)
<1>1. job[w] \in Jobs /\ job[w].item \in Item
  BY TypesUnfold DEF BaseInv, Jobs
<1>2. /\ job[w].item.task \in TaskId /\ job[w].item.stage \in Stage
      /\ job[w].item.path \in Seq(Nat) /\ job[w].item.seeds \in SUBSET Record
  BY <1>1 DEF Item
<1> QED
  BY <1>1, <1>2 DEF BaseInv, AtHeldItem, HeldAsStored, Jobs

LEMMA FinishFacts ==
  ASSUME BaseInv, NEW w \in Worker, Finish(w)
  PROVE  /\ job' \in [Worker -> Jobs] /\ hold' \in [Worker -> SUBSET Item]
         /\ \A v \in Worker : hold'[v] \subseteq hold[v]
         /\ \A v \in Worker \ {w} : job'[v] = job[v]
         /\ job'[w] = Idle /\ Idle.phase = "idle"
         /\ AtHeldItem' /\ ChunksOfItem'
<1>1. /\ job' \in [Worker -> Jobs] /\ hold' \in [Worker -> SUBSET Item]
      /\ \A v \in Worker : hold'[v] \subseteq hold[v]
      /\ \A v \in Worker \ {w} : job'[v] = job[v] /\ hold'[v] = hold[v]
      /\ job'[w] = Idle
  BY IdleType, TypesUnfold DEF BaseInv, Finish
<1>2. Idle.phase = "idle"
  BY DEF Idle
<1>3. AtHeldItem' /\ ChunksOfItem'
  BY <1>1, <1>2 DEF BaseInv, AtHeldItem, ChunksOfItem
<1> QED
  BY <1>1, <1>2, <1>3

\* A worker goes on with an item it holds.
LEMMA JobMoves ==
  ASSUME BaseInv, NEW w \in Worker, NEW j \in Jobs,
         job' = [job EXCEPT ![w] = j], hold' = hold, j.item \in hold[w],
         j.phase = "splitting" => j.item.seeds = UNION {j.chunks[i] : i \in 1..Len(j.chunks)}
  PROVE  /\ job' \in [Worker -> Jobs] /\ job'[w] = j
         /\ \A v \in Worker \ {w} : job'[v] = job[v]
         /\ AtHeldItem' /\ ChunksOfItem'
<1>1. /\ job' \in [Worker -> Jobs] /\ job'[w] = j
      /\ \A v \in Worker \ {w} : job'[v] = job[v]
  BY TypesUnfold DEF BaseInv
<1>2. AtHeldItem'
  BY <1>1 DEF BaseInv, AtHeldItem
<1>3. ChunksOfItem'
  BY <1>1 DEF BaseInv, ChunksOfItem
<1> QED
  BY <1>1, <1>2, <1>3

\* Leases are renewed or run out.
LEMMA LeasesMove ==
  ASSUME TypeOK, NEW T \in SUBSET TaskId, NEW b \in BOOLEAN,
         outbox' = [t \in TaskId |-> IF t \in T THEN [outbox[t] EXCEPT !.fresh = b]
                                                ELSE outbox[t]]
  PROVE  /\ outbox' \in [TaskId -> Row]
         /\ \A t \in TaskId : SameRow(t) /\ Settled(t)
<1> SUFFICES ASSUME NEW t \in TaskId PROVE outbox'[t] \in Row /\ SameRow(t) /\ Settled(t)
  OBVIOUS
<1> PICK row \in Row : row = outbox[t]
  BY DEF TypeOK
<1>1. outbox'[t] = row \/ outbox'[t] = [row EXCEPT !.fresh = b]
  OBVIOUS
<1> QED
  BY <1>1, FreshFacts DEF SameRow, Settled

\* The steps of a worker.
LEMMA StartKeeps ==
  ASSUME BaseInv, NEW w \in Worker, NEW i \in hold[w], Start(w, i)
  PROVE  /\ BaseInv' /\ \A t \in TaskId : SameRow(t) /\ Settled(t)
         /\ \A v \in Worker \ {w} : job'[v] = job[v]
         /\ job'[w].phase \in {"splitting", "locking"} /\ job'[w].next = 1
<1>1. i \in Item /\ i.task \in TaskId /\ i.seeds \in SUBSET Record /\ i.stage \in Stage /\ TypeOK
  BY SMTT(20) DEF BaseInv, TypeOK, Item
<1>2. outbox' \in [TaskId -> Row] /\ \A t \in TaskId : SameRow(t) /\ Settled(t)
  <2>1. outbox' = [t \in TaskId |-> IF t \in {i.task} THEN [outbox[t] EXCEPT !.fresh = TRUE]
                                                      ELSE outbox[t]]
    BY <1>1 DEF Start, TypeOK
  <2> QED
    BY <1>1, <2>1, LeasesMove
<1> DEFINE f == ChunksOf(i.seeds, SeedCap[i.stage])
           large == Cardinality(i.seeds) > SeedCap[i.stage]
<1> PICK j : j = [Idle EXCEPT
                   !.phase = IF large THEN "splitting" ELSE "locking",
                   !.item = i, !.chunks = IF large THEN f ELSE <<>>]
  OBVIOUS
<1>3. f \in Seq(SUBSET Record) /\ i.seeds = UNION {f[k] : k \in 1..Len(f)}
  BY <1>1, ChunksFacts
<1>4. job' = [job EXCEPT ![w] = j]
  BY DEF Start
<1> HIDE DEF f, large
<1>5. /\ j.item = i /\ j.phase \in {"splitting", "locking"}
      /\ j.phase = "splitting" => j.chunks = f
      /\ j.next = 1 /\ j \in Jobs
  BY <1>1, <1>3, IdleType DEF Idle, Jobs, Phase
<1>6. /\ hold' = hold /\ j.item \in hold[w]
      /\ j.phase = "splitting" => j.item.seeds = UNION {j.chunks[k] : k \in 1..Len(j.chunks)}
  <2>1. ASSUME j.phase = "splitting"
        PROVE  j.item.seeds = UNION {j.chunks[k] : k \in 1..Len(j.chunks)}
    <3>1. j.chunks = f /\ j.item = i
      BY <1>5, <2>1
    <3> QED
      BY <1>3, <3>1
  <2> QED
    BY <1>5, <2>1 DEF Start
<1>7. /\ job' \in [Worker -> Jobs] /\ job'[w] = j
      /\ \A v \in Worker \ {w} : job'[v] = job[v]
      /\ AtHeldItem' /\ ChunksOfItem'
  BY <1>3, <1>4, <1>5, <1>6, JobMoves
<1>8. TypeOK'
  BY <1>1, <1>2, <1>7, TypesUnfold DEF Start
<1>9. HeldAsStored'
  BY <1>1, <1>2, <1>6, SettledKeepsHeld DEF BaseInv
<1> QED
  BY <1>2, <1>5, <1>7, <1>8, <1>9 DEF BaseInv

LEMMA SkipLostKeeps ==
  ASSUME BaseInv, NEW w \in Worker, NEW i \in hold[w], SkipLost(w, i)
  PROVE  BaseInv' /\ \A t \in TaskId : Settled(t)
<1>1. /\ hold' \in [Worker -> SUBSET Item]
      /\ \A v \in Worker : hold'[v] \subseteq hold[v]
      /\ \A v \in Worker \ {w} : hold'[v] = hold[v]
      /\ job' = job /\ outbox' = outbox
  BY TypesUnfold DEF BaseInv, SkipLost
<1>2. \A t \in TaskId : Settled(t)
  BY <1>1 DEF Settled
<1>3. TypeOK'
  BY <1>1, TypesUnfold DEF BaseInv, SkipLost
<1>4. AtHeldItem' /\ ChunksOfItem'
  BY <1>1 DEF BaseInv, AtHeldItem, ChunksOfItem, SkipLost
<1>5. HeldAsStored'
  BY <1>1, <1>2, SettledKeepsHeld DEF BaseInv
<1> QED
  BY <1>2, <1>3, <1>4, <1>5 DEF BaseInv

LEMMA EnqueuedSettles ==
  ASSUME NEW y, NEW s, NEW S, Enqueued(outbox, outbox', y, s, S)
  PROVE  outbox' \in [TaskId -> Row] /\ \A t \in TaskId : Settled(t)
BY DEF Enqueued, Settled

LEMMA DeletedSettles ==
  ASSUME TypeOK, NEW t \in TaskId, NEW next \in [TaskId -> Row], outbox' = Delete(next, t),
         \A u \in TaskId \ {t} : next[u].status = "processing" => next[u] = outbox[u]
  PROVE  outbox' \in [TaskId -> Row] /\ \A u \in TaskId : Settled(u)
<1>1. /\ outbox' \in [TaskId -> Row] /\ outbox'[t].status = "absent"
      /\ \A u \in TaskId \ {t} : outbox'[u] = next[u]
  BY DeleteFacts
<1> QED
  BY <1>1 DEF Settled

LEMMA EnqueueChunkKeeps ==
  ASSUME BaseInv, NEW w \in Worker, EnqueueChunk(w)
  PROVE  /\ BaseInv' /\ \A t \in TaskId : Settled(t)
         /\ \E y \in TaskId : Enqueued(outbox, outbox', y, job[w].item.stage, job[w].chunks[job[w].next])
         /\ job' = [job EXCEPT ![w].next = @ + 1]
<1> PICK j \in Jobs : j = job[w]
  BY TypesUnfold DEF BaseInv
<1> PICK p : p = j.item.path \o <<j.next, Len(j.chunks)>>
  OBVIOUS
<1>1. /\ j.item \in Item /\ j.item \in hold[w] /\ j.item.stage \in Stage /\ j.item.path \in Seq(Nat)
      /\ j.next \in 1..Len(j.chunks) /\ j.chunks \in Seq(SUBSET Record) /\ j.phase = "splitting"
  BY AtItem, SMTT(20) DEF EnqueueChunk, Jobs
<1>2. p \in Seq(Nat) /\ j.chunks[j.next] \in SUBSET Record
  BY <1>1, SMTT(20)
<1>3. /\ CanEnqueue(outbox, j.item.stage, p)
      /\ outbox' = EnqueueOrMerge(outbox, j.item.stage, p, j.chunks[j.next])
  BY DEF EnqueueChunk
<1>4. \E y \in TaskId : Enqueued(outbox, outbox', y, j.item.stage, j.chunks[j.next])
  BY <1>1, <1>2, <1>3, EnqueueLands, TypesUnfold DEF BaseInv
<1>5. outbox' \in [TaskId -> Row] /\ \A t \in TaskId : Settled(t)
  BY <1>4, EnqueuedSettles
<1> PICK k : k = [j EXCEPT !.next = @ + 1]
  OBVIOUS
<1>6. /\ k \in Jobs /\ k.item = j.item /\ k.phase = j.phase /\ k.chunks = j.chunks
  <2>1. j.next + 1 \in Nat \ {0}
    BY DEF Jobs
  <2> QED
    BY <2>1 DEF Jobs
<1>7. job' = [job EXCEPT ![w] = k] /\ job' = [job EXCEPT ![w].next = @ + 1] /\ hold' = hold
  <2>1. job' = [job EXCEPT ![w].next = @ + 1] /\ hold' = hold
    BY DEF EnqueueChunk
  <2>2. job' = [job EXCEPT ![w] = [job[w] EXCEPT !.next = @ + 1]]
    BY <2>1
  <2> QED
    BY <2>1, <2>2
<1>8. k.item \in hold[w] /\ k.item.seeds = UNION {k.chunks[i] : i \in 1..Len(k.chunks)}
  BY <1>1, <1>6 DEF BaseInv, ChunksOfItem
<1>9. job' \in [Worker -> Jobs] /\ AtHeldItem' /\ ChunksOfItem'
  BY <1>6, <1>7, <1>8, JobMoves, ZenonT(40)
<1>10. TypeOK'
  BY <1>5, <1>9, RememberType, TypesUnfold DEF BaseInv, EnqueueChunk
<1>11. HeldAsStored'
  BY <1>5, <1>7, SettledKeepsHeld DEF BaseInv
<1> QED
  BY <1>4, <1>5, <1>7, <1>9, <1>10, <1>11 DEF BaseInv

LEMMA FinishSplitKeeps ==
  ASSUME BaseInv, NEW w \in Worker, FinishSplit(w)
  PROVE  BaseInv' /\ \A t \in TaskId : Settled(t)
<1> PICK j \in Jobs : j = job[w]
  BY TypesUnfold DEF BaseInv
<1>1. j.item \in hold[w] /\ j.item.task \in TaskId /\ j.phase = "splitting" /\ TypeOK
  BY AtItem DEF FinishSplit, BaseInv
<1>2. CASE Owns(w, j.item.task)
  <2>1. outbox' = Delete(outbox, j.item.task) /\ Finish(w)
    BY <1>2 DEF FinishSplit
  <2>2. outbox' \in [TaskId -> Row] /\ \A t \in TaskId : Settled(t)
    BY <1>1, <2>1, DeletedSettles, TypesUnfold
  <2>3. TypeOK'
    BY <1>1, <2>1, <2>2, FinishFacts, TypesUnfold DEF FinishSplit
  <2>4. HeldAsStored'
    BY <2>1, <2>2, FinishFacts, SettledKeepsHeld DEF BaseInv
  <2> QED
    BY <2>1, <2>2, <2>3, <2>4, FinishFacts DEF BaseInv
<1>3. CASE ~Owns(w, j.item.task)
  <2>1. job' = [job EXCEPT ![w].phase = "locking"] /\ outbox' = outbox /\ hold' = hold
    BY <1>3 DEF FinishSplit
  <2> PICK k : k = [j EXCEPT !.phase = "locking"]
    OBVIOUS
  <2>2. k \in Jobs /\ k.item = j.item /\ k.phase = "locking"
    BY DEF Jobs, Phase
  <2>3. job' = [job EXCEPT ![w] = k]
    BY <1>1, <2>1, TypesUnfold
  <2>4. job' \in [Worker -> Jobs] /\ AtHeldItem' /\ ChunksOfItem'
    BY <1>1, <2>1, <2>2, <2>3, JobMoves
  <2>5. TypeOK' /\ \A t \in TaskId : Settled(t)
    BY <1>1, <2>1, <2>4, TypesUnfold DEF FinishSplit, Settled
  <2>6. HeldAsStored'
    BY <2>1, <2>5, SettledKeepsHeld DEF BaseInv
  <2> QED
    BY <2>4, <2>5, <2>6 DEF BaseInv
<1> QED
  BY <1>2, <1>3

LEMMA TryLocksKeeps ==
  ASSUME BaseInv, NEW w \in Worker, TryLocks(w)
  PROVE  /\ BaseInv' /\ \A t \in TaskId : Settled(t)
         /\ \A v \in Worker \ {w} : job'[v] = job[v]
         /\ job'[w].item = job[w].item /\ crossed \subseteq crossed'
         /\ \/ job'[w].phase = "blocked"
            \/ /\ job'[w].phase = "running"
               /\ LocksFree(job[w].item.stage, job[w].item.seeds)
               /\ \A r \in Crossing(job[w].item.stage, job[w].item.seeds) :
                    <<job[w].item.stage, r, In(job[w].item.stage, r)>> \in crossed'
               /\ \A r \in job[w].item.seeds : job'[w].reads[r] = In(job[w].item.stage, r)
<1> PICK j \in Jobs : j = job[w]
  BY TypesUnfold DEF BaseInv
<1> PICK i \in Item : i = j.item
  BY DEF Jobs
<1>1. /\ i \in hold[w] /\ i.stage \in Stage /\ i.seeds \in SUBSET Record
      /\ j.phase = "locking" /\ TypeOK
  BY AtItem DEF TryLocks, BaseInv
<1>2. outbox' = outbox /\ hold' = hold
  BY DEF TryLocks
<1> PICK reads : reads = [r \in Record |-> IF r \in i.seeds THEN In(i.stage, r) ELSE 0]
  OBVIOUS
<1>3. reads \in [Record -> Version] /\ \A r \in i.seeds : reads[r] = In(i.stage, r)
  BY <1>1, InType, OutboxAssumption DEF OutboxAssumption, Version
<1>4. PICK k \in Jobs :
        /\ job' = [job EXCEPT ![w] = k] /\ k.item = i
        /\ \/ k.phase = "blocked"
           \/ k.phase = "running" /\ k.reads = reads /\ LocksFree(i.stage, i.seeds)
  <2>1. CASE LocksFree(i.stage, i.seeds)
    <3> PICK k : k = [j EXCEPT !.phase = "running", !.reads = reads]
      OBVIOUS
    <3>1. k \in Jobs /\ k.item = i /\ k.phase = "running" /\ k.reads = reads
      BY <1>3 DEF Jobs, Phase
    <3>2. job' = [job EXCEPT ![w] = k]
      BY <1>1, <2>1, TypesUnfold DEF TryLocks
    <3> QED
      BY <2>1, <3>1, <3>2
  <2>2. CASE ~LocksFree(i.stage, i.seeds)
    <3> PICK k : k = [j EXCEPT !.phase = "blocked"]
      OBVIOUS
    <3>1. k \in Jobs /\ k.item = i /\ k.phase = "blocked"
      BY DEF Jobs, Phase
    <3>2. job' = [job EXCEPT ![w] = k]
      BY <1>1, <2>2, TypesUnfold DEF TryLocks
    <3> QED
      BY <3>1, <3>2
  <2> QED
    BY <2>1, <2>2
<1>5. /\ job' \in [Worker -> Jobs] /\ job'[w] = k
      /\ \A v \in Worker \ {w} : job'[v] = job[v]
      /\ AtHeldItem' /\ ChunksOfItem'
  BY <1>1, <1>2, <1>4, JobMoves
<1> PICK C : C = {<<i.stage, r, In(i.stage, r)>> : r \in Crossing(i.stage, i.seeds)}
  OBVIOUS
<1>6. /\ C \subseteq Marks
      /\ \A r \in Crossing(i.stage, i.seeds) : <<i.stage, r, In(i.stage, r)>> \in C
  <2>1. \A r \in Crossing(i.stage, i.seeds) : r \in Record /\ In(i.stage, r) \in Version
    BY <1>1, InType DEF Crossing
  <2> QED
    BY <1>1, <2>1 DEF Marks
<1>7. /\ crossed' = crossed \/ crossed' = crossed \cup C
      /\ LocksFree(i.stage, i.seeds) => crossed' = crossed \cup C
  BY DEF TryLocks
<1>8. LocksFree(i.stage, i.seeds) \/ k.phase = "blocked"
  BY <1>4
<1>9. TypeOK' /\ \A t \in TaskId : Settled(t)
  BY <1>1, <1>2, <1>5, <1>6, <1>7, TypesUnfold DEF TryLocks, Settled
<1>10. HeldAsStored'
  BY <1>2, <1>9, SettledKeepsHeld DEF BaseInv
<1> QED
  BY <1>3, <1>4, <1>5, <1>6, <1>7, <1>8, <1>9, <1>10 DEF BaseInv

\* The next stage's task is enqueued, unless there is none.
NextStage(next, s, S) ==
  \/ s = Stages /\ next = outbox
  \/ s + 1 \in Stage /\ \E y \in TaskId : Enqueued(outbox, next, y, s + 1, S)

LEMMA CommitKeeps ==
  ASSUME BaseInv, NEW w \in Worker, Commit(w)
  PROVE  /\ BaseInv' /\ \A t \in TaskId : Settled(t)
         /\ \E next \in [TaskId -> Row] :
              /\ NextStage(next, job[w].item.stage, job[w].item.seeds)
              /\ outbox' = IF Owns(w, job[w].item.task) THEN Delete(next, job[w].item.task) ELSE next
<1> PICK i \in Item : i = job[w].item
  BY AtItem
<1>1. /\ i.task \in TaskId /\ i.stage \in Stage /\ i.seeds \in SUBSET Record
      /\ job[w].reads \in [Record -> Version] /\ TypeOK
  BY AtItem DEF BaseInv
<1>2. PICK next \in [TaskId -> Row] :
        /\ NextStage(next, i.stage, i.seeds)
        /\ \A u \in TaskId : next[u].status = "processing" => next[u] = outbox[u]
        /\ outbox' = IF Owns(w, i.task) THEN Delete(next, i.task) ELSE next
  <2>1. CASE i.stage = Stages
    BY <1>1, <2>1, TypesUnfold DEF NextStage, Commit
  <2>2. CASE i.stage # Stages
    <3>1. i.stage + 1 \in Stage /\ <<>> \in Seq(Nat) /\ CanEnqueue(outbox, i.stage + 1, <<>>)
      BY <1>1, <2>2, OutboxAssumption DEF Commit, Stage, OutboxAssumption
    <3> PICK next : next = EnqueueOrMerge(outbox, i.stage + 1, <<>>, i.seeds)
      OBVIOUS
    <3>2. PICK y \in TaskId : Enqueued(outbox, next, y, i.stage + 1, i.seeds)
      BY <1>1, <3>1, EnqueueLands, TypesUnfold
    <3>3. /\ next \in [TaskId -> Row]
          /\ \A u \in TaskId : next[u].status = "processing" => next[u] = outbox[u]
      BY <3>2 DEF Enqueued
    <3>4. outbox' = IF Owns(w, i.task) THEN Delete(next, i.task) ELSE next
      BY <2>2 DEF Commit
    <3> QED
      BY <3>1, <3>2, <3>3, <3>4 DEF NextStage
  <2> QED
    BY <2>1, <2>2
<1>3. outbox' \in [TaskId -> Row] /\ \A t \in TaskId : Settled(t)
  <2>1. CASE Owns(w, i.task)
    BY <1>1, <1>2, <2>1, DeletedSettles
  <2>2. CASE ~Owns(w, i.task)
    BY <1>2, <2>2 DEF Settled
  <2> QED
    BY <2>1, <2>2
<1>4. Finish(w)
  BY DEF Commit
<1>5. comp' \in [Stage -> [Record -> Version]]
  BY <1>1, TypesUnfold DEF Commit
<1>6. TypeOK'
  BY <1>1, <1>3, <1>4, <1>5, FinishFacts, RememberType, TypesUnfold DEF Commit
<1>7. HeldAsStored'
  BY <1>3, <1>4, FinishFacts, SettledKeepsHeld DEF BaseInv
<1> QED
  BY <1>2, <1>3, <1>4, <1>6, <1>7, FinishFacts DEF BaseInv

LEMMA ReleaseKeeps ==
  ASSUME BaseInv, NEW w \in Worker, Release(w)
  PROVE  /\ BaseInv' /\ \A t \in TaskId : Settled(t)
         /\ \/ outbox' = outbox
            \/ \E next \in [TaskId -> Row], y \in TaskId :
                 /\ Owns(w, job[w].item.task)
                 /\ Enqueued(outbox, next, y, job[w].item.stage, job[w].item.seeds)
                 /\ outbox' = Delete(next, job[w].item.task)
            \/ /\ Owns(w, job[w].item.task)
               /\ outbox' = [outbox EXCEPT ![job[w].item.task] = ToPending(@, @.attempts)]
<1> PICK i \in Item : i = job[w].item
  BY AtItem
<1>1. /\ i.task \in TaskId /\ i.stage \in Stage /\ i.seeds \in SUBSET Record
      /\ i.path \in Seq(Nat) /\ TypeOK /\ Finish(w)
  BY AtItem DEF BaseInv, Release
<1>2. /\ outbox' \in [TaskId -> Row] /\ \A t \in TaskId : Settled(t)
      /\ \/ outbox' = outbox
         \/ \E next \in [TaskId -> Row], y \in TaskId :
              /\ Owns(w, i.task)
              /\ Enqueued(outbox, next, y, i.stage, i.seeds)
              /\ outbox' = Delete(next, i.task)
         \/ Owns(w, i.task) /\ outbox' = [outbox EXCEPT ![i.task] = ToPending(@, @.attempts)]
  <2>1. CASE ~Owns(w, i.task)
    BY <1>1, <2>1, TypesUnfold DEF Release, Settled
  <2>2. CASE Owns(w, i.task) /\ Pending(outbox, i.stage, i.path) # {}
    <3> PICK next : next = EnqueueOrMerge(outbox, i.stage, i.path, i.seeds)
      OBVIOUS
    <3>1. CanEnqueue(outbox, i.stage, i.path)
      BY <2>2 DEF CanEnqueue
    <3>2. PICK y \in TaskId : Enqueued(outbox, next, y, i.stage, i.seeds)
      BY <1>1, <3>1, EnqueueLands, TypesUnfold
    <3>3. /\ next \in [TaskId -> Row]
          /\ \A u \in TaskId : next[u].status = "processing" => next[u] = outbox[u]
      BY <3>2 DEF Enqueued
    <3>4. outbox' = Delete(next, i.task)
      BY <2>2 DEF Release
    <3> QED
      BY <1>1, <2>2, <3>2, <3>3, <3>4, DeletedSettles
  <2>3. CASE Owns(w, i.task) /\ Pending(outbox, i.stage, i.path) = {}
    <3>1. outbox' = [outbox EXCEPT ![i.task] = ToPending(outbox[i.task], outbox[i.task].attempts)]
      BY <2>3 DEF Release
    <3>2. outbox[i.task] \in Row /\ outbox[i.task].attempts \in 0..MaxAttempts
      BY <1>1, TypesUnfold DEF Row
    <3> PICK row : row = ToPending(outbox[i.task], outbox[i.task].attempts)
      OBVIOUS
    <3>3. row \in Row /\ row.status = "pending"
      BY <3>2, ToPendingFacts
    <3>4. outbox' \in [TaskId -> Row] /\ \A t \in TaskId : Settled(t)
      BY <1>1, <3>1, <3>3, TypesUnfold DEF Settled
    <3>5. outbox' = [outbox EXCEPT ![i.task] = ToPending(@, @.attempts)]
      BY <3>1
    <3> QED
      BY <2>3, <3>4, <3>5
  <2> QED
    BY <2>1, <2>2, <2>3
<1>3. TypeOK'
  BY <1>1, <1>2, FinishFacts, RememberType, TypesUnfold DEF Release
<1>4. HeldAsStored'
  BY <1>1, <1>2, FinishFacts, SettledKeepsHeld DEF BaseInv
<1> QED
  BY <1>1, <1>2, <1>3, <1>4, FinishFacts DEF BaseInv

LEMMA FailKeeps ==
  ASSUME BaseInv, NEW w \in Worker, NEW fatal \in BOOLEAN, Fail(w, fatal)
  PROVE  /\ BaseInv' /\ \A t \in TaskId : Settled(t)
         /\ faults' # faults
         /\ \/ outbox' = outbox /\ dead' = dead
            \/ /\ Owns(w, job[w].item.task)
               /\ outbox' = Delete(outbox, job[w].item.task)
               /\ dead' = dead \cup {LetterOf(job[w].item)}
            \/ /\ Owns(w, job[w].item.task) /\ dead' = dead
               /\ \E n \in 0..MaxAttempts :
                    outbox' = [outbox EXCEPT ![job[w].item.task] = ToPending(@, n)]
<1> PICK i \in Item : i = job[w].item
  BY AtItem
<1>1. /\ i.task \in TaskId /\ i.stage \in Stage /\ i.seeds \in SUBSET Record
      /\ i.path \in Seq(Nat) /\ TypeOK /\ Finish(w) /\ i.attempts \in 0..MaxAttempts
  BY AtItem DEF BaseInv, Fail, Item
<1>2. faults' \in 0..MaxFaults /\ faults' # faults
  BY <1>1, TypesUnfold, OutboxAssumption DEF Fail, OutboxAssumption
<1>3. /\ outbox' \in [TaskId -> Row] /\ dead' \subseteq Letter /\ \A t \in TaskId : Settled(t)
      /\ \/ outbox' = outbox /\ dead' = dead
         \/ /\ Owns(w, i.task)
            /\ outbox' = Delete(outbox, i.task)
            /\ dead' = dead \cup {LetterOf(i)}
         \/ /\ Owns(w, i.task) /\ dead' = dead
            /\ \E n \in 0..MaxAttempts : outbox' = [outbox EXCEPT ![i.task] = ToPending(@, n)]
  <2>1. CASE outbox' = outbox /\ dead' = dead
    BY <1>1, <2>1, TypesUnfold DEF Settled
  <2>2. CASE Owns(w, i.task) /\ outbox' = Delete(outbox, i.task) /\ dead' = dead \cup {LetterOf(i)}
    <3>1. LetterOf(i) \in Letter
      BY <1>1 DEF LetterOf, Letter
    <3>2. outbox' \in [TaskId -> Row] /\ \A t \in TaskId : Settled(t)
      BY <1>1, <2>2, DeletedSettles, TypesUnfold
    <3> QED
      BY <1>1, <2>2, <3>1, <3>2, TypesUnfold
  <2>3. ASSUME NEW n \in 0..MaxAttempts, Owns(w, i.task), dead' = dead,
               outbox' = [outbox EXCEPT ![i.task] = ToPending(@, n)]
        PROVE  outbox' \in [TaskId -> Row] /\ dead' \subseteq Letter /\ \A t \in TaskId : Settled(t)
    <3> PICK row : row = ToPending(outbox[i.task], n)
      OBVIOUS
    <3>1. row \in Row /\ row.status = "pending"
      BY <1>1, ToPendingFacts, TypesUnfold
    <3>2. outbox' = [outbox EXCEPT ![i.task] = row]
      BY <2>3
    <3>3. outbox \in [TaskId -> Row] /\ dead' \subseteq Letter
      BY <1>1, <2>3, TypesUnfold
    <3>4. /\ outbox' \in [TaskId -> Row] /\ outbox'[i.task] = row
          /\ \A t \in TaskId : t # i.task => outbox'[t] = outbox[t]
      BY <1>1, <3>1, <3>2, <3>3
    <3> QED
      BY <3>1, <3>3, <3>4 DEF Settled
  <2>4. \/ outbox' = outbox /\ dead' = dead
        \/ Owns(w, i.task) /\ outbox' = Delete(outbox, i.task) /\ dead' = dead \cup {LetterOf(i)}
        \/ \E n \in 0..MaxAttempts :
             Owns(w, i.task) /\ dead' = dead /\ outbox' = [outbox EXCEPT ![i.task] = ToPending(@, n)]
    <3> PICK n : n = IF fatal THEN MaxAttempts ELSE i.attempts + 1
      OBVIOUS
    <3>1. n \in Nat
      <4>1. MaxAttempts \in Nat
        BY OutboxAssumption DEF OutboxAssumption
      <4>2. i.attempts + 1 \in Nat
        BY <1>1, <4>1
      <4> QED
        BY <4>1, <4>2
    <3>2. \/ ~Owns(w, i.task) /\ UNCHANGED <<outbox, dead>>
          \/ /\ Owns(w, i.task) /\ outbox' = Delete(outbox, i.task)
             /\ dead' = dead \cup {LetterOf(i)}
          \/ /\ Owns(w, i.task) /\ n < MaxAttempts /\ dead' = dead
             /\ (outbox' = outbox \/ outbox' = [outbox EXCEPT ![i.task] = ToPending(@, n)])
      BY DEF Fail
    <3>3. n < MaxAttempts => n \in 0..MaxAttempts
      BY <3>1, OutboxAssumption DEF OutboxAssumption
    <3> QED
      BY <3>2, <3>3
  <2> QED
    BY <2>1, <2>2, <2>3, <2>4
<1>4. TypeOK'
  BY <1>1, <1>2, <1>3, FinishFacts, TypesUnfold DEF Fail
<1>5. HeldAsStored'
  BY <1>1, <1>3, FinishFacts, SettledKeepsHeld DEF BaseInv
<1> QED
  BY <1>1, <1>2, <1>3, <1>4, <1>5, FinishFacts DEF BaseInv

\* Claims, of whatever kind.
LEMMA TakeRowsKeeps ==
  ASSUME BaseInv, NEW w \in Worker, NEW T \in SUBSET TaskId, hold[w] = {},
         TakeRows(w, T), faults' \in 0..MaxFaults
  PROVE  /\ BaseInv' /\ job[w].phase = "idle"
         /\ \A t \in TaskId \ T : outbox'[t] = outbox[t]
         /\ \A t \in T : outbox'[t].status = "processing" /\ outbox'[t].owner = w
         /\ \A t \in TaskId : outbox'[t].stage = outbox[t].stage /\ outbox'[t].seeds = outbox[t].seeds
<1>0. TypeOK /\ job' = job
  BY DEF BaseInv, TakeRows
<1>1. /\ \A t \in TaskId \ T : outbox'[t] = outbox[t]
      /\ \A t \in T : outbox'[t] = Claimed(outbox[t], w)
      /\ DOMAIN outbox' = TaskId /\ outbox' = [t \in TaskId |-> outbox'[t]]
  BY DEF TakeRows
<1>2. \A t \in T : /\ outbox'[t] \in Row
                   /\ outbox'[t].status = "processing" /\ outbox'[t].owner = w
                   /\ outbox'[t].stage = outbox[t].stage /\ outbox'[t].seeds = outbox[t].seeds
                   /\ outbox'[t].path = outbox[t].path /\ outbox'[t].attempts = outbox[t].attempts
  BY <1>0, <1>1, ClaimedFacts, TypesUnfold
<1>3. outbox' \in [TaskId -> Row]
  BY <1>0, <1>1, <1>2, TypesUnfold
<1>4. \A t \in TaskId : ItemOf(t) \in Item
  BY <1>0, TypesUnfold DEF ItemOf, Item, Row
<1>5. /\ hold' \in [Worker -> SUBSET Item]
      /\ hold'[w] = {ItemOf(t) : t \in T}
      /\ \A v \in Worker \ {w} : hold'[v] = hold[v]
  BY <1>0, <1>4, TypesUnfold DEF TakeRows
<1>6. TypeOK'
  BY <1>0, <1>3, <1>5, TypesUnfold DEF TakeRows
<1>7. job[w].phase = "idle"
  BY DEF BaseInv, AtHeldItem
<1>8. AtHeldItem' /\ ChunksOfItem'
  BY <1>0, <1>5, <1>7 DEF BaseInv, AtHeldItem, ChunksOfItem
<1>9. HeldAsStored'
  <2> SUFFICES ASSUME NEW v \in Worker, NEW i \in hold'[v], Owns(v, i.task)'
               PROVE  (i = ItemOf(i.task))'
    BY DEF HeldAsStored
  <2>1. CASE v = w
    <3> PICK t \in T : i = ItemOf(t)
      BY <1>5, <2>1
    <3>1. i.task = t
      BY DEF ItemOf
    <3> QED
      BY <1>2, <3>1 DEF ItemOf
  <2>2. CASE v # w
    <3>1. i \in hold[v] /\ i.task \in TaskId
      BY <1>0, <1>5, <2>2 DEF TypeOK, Item
    <3>2. outbox'[i.task] = outbox[i.task]
      BY <1>1, <1>2, <2>2, <3>1 DEF Owns
    <3>3. i = ItemOf(i.task)
      BY <3>1, <3>2 DEF Owns, BaseInv, HeldAsStored
    <3> QED
      BY <3>2, <3>3 DEF ItemOf
  <2> QED
    BY <2>1, <2>2
<1> QED
  BY <1>1, <1>2, <1>6, <1>7, <1>8, <1>9 DEF BaseInv

\* A claim leaves leases alone, or counts as a fault.
LEMMA ClaimKeeps ==
  ASSUME BaseInv, NEW w \in Worker, Claim(w)
  PROVE  \E T \in SUBSET TaskId :
           /\ hold[w] = {} /\ TakeRows(w, T) /\ faults' \in 0..MaxFaults
           /\ \A t \in T : outbox[t].status # "absent"
           /\ faults' # faults \/ \A t \in T : ~(outbox[t].status = "processing" /\ outbox[t].fresh)
<1>0. faults \in 0..MaxFaults /\ MaxFaults \in Nat
  BY OutboxAssumption DEF BaseInv, TypeOK, OutboxAssumption
<1>1. ASSUME NEW t \in TaskId, ClaimById(w, t)
      PROVE  /\ hold[w] = {} /\ TakeRows(w, {t}) /\ faults' = faults
             /\ outbox[t].status # "absent" /\ ~(outbox[t].status = "processing" /\ outbox[t].fresh)
  BY <1>1 DEF ClaimById, Runnable, Stale
<1>2. ASSUME NEW t \in TaskId, TakeOver(w, t)
      PROVE  /\ hold[w] = {} /\ TakeRows(w, {t}) /\ faults' \in 0..MaxFaults /\ faults' # faults
             /\ outbox[t].status # "absent"
  BY <1>0, <1>2 DEF TakeOver
<1>3. ASSUME NEW T \in SUBSET TaskId, ClaimBatch(w, T)
      PROVE  /\ hold[w] = {} /\ TakeRows(w, T) /\ faults' = faults
             /\ \A t \in T : /\ outbox[t].status # "absent"
                            /\ ~(outbox[t].status = "processing" /\ outbox[t].fresh)
  BY <1>3 DEF ClaimBatch, Runnable, Stale
<1>4. CASE \E t \in TaskId : ClaimById(w, t) \/ TakeOver(w, t)
  <2> PICK t \in TaskId : ClaimById(w, t) \/ TakeOver(w, t)
    BY <1>4
  <2> WITNESS {t} \in SUBSET TaskId
  <2> QED
    BY <1>0, <1>1, <1>2
<1>5. CASE \E T \in (SUBSET TaskId) \ {{}} : ClaimBatch(w, T)
  BY <1>0, <1>3, <1>5
<1> QED
  BY <1>4, <1>5 DEF Claim

\* A user's transaction.
LEMMA ChangeKeeps ==
  ASSUME BaseInv, NEW R \in SUBSET Record, NEW k \in 0..Stages, Change(R, k)
  PROVE  /\ BaseInv' /\ \A t \in TaskId : Settled(t)
         /\ NextStage(outbox', k, R)
<1>0. TypeOK /\ job' = job /\ hold' = hold
  BY DEF BaseInv, Change
<1>1. outbox' \in [TaskId -> Row] /\ NextStage(outbox', k, R) /\ \A t \in TaskId : Settled(t)
  <2>1. CASE k = Stages /\ UNCHANGED outbox
    BY <1>0, <2>1, TypesUnfold DEF NextStage, Settled
  <2>2. CASE k < Stages /\ CanEnqueue(outbox, k + 1, <<>>) /\ outbox' = EnqueueOrMerge(outbox, k + 1, <<>>, R)
    <3>1. k + 1 \in Stage /\ <<>> \in Seq(Nat)
      BY <2>2, OutboxAssumption DEF OutboxAssumption, Stage
    <3>2. \E y \in TaskId : Enqueued(outbox, outbox', y, k + 1, R)
      BY <1>0, <2>2, <3>1, EnqueueLands, TypesUnfold
    <3> QED
      BY <3>1, <3>2, EnqueuedSettles DEF NextStage
  <2> QED
    BY <2>1, <2>2 DEF Change
<1>2. \A r \in R : src[r] + 1 \in Version
  <2> SUFFICES ASSUME NEW r \in R PROVE src[r] + 1 \in Version
    OBVIOUS
  <2>1. src[r] \in Version /\ src[r] < (IF r \in Changeable THEN MaxVersion ELSE 1)
    BY <1>0, TypesUnfold DEF Change
  <2>2. MaxVersion \in Nat \ {0}
    BY OutboxAssumption DEF OutboxAssumption
  <2> QED
    BY <2>1, <2>2 DEF Version
<1>3. src' \in [Record -> Version] /\ comp' \in [Stage -> [Record -> Version]]
  BY <1>0, <1>2, TypesUnfold DEF Change
<1>4. crossed' \subseteq Marks
  <2>1. ASSUME NEW s \in 1..k, NEW r \in Crossing(s, R) PROVE <<s, r, src'[r]>> \in Marks
    <3>1. s \in Stage /\ r \in Record
      BY <2>1, OutboxAssumption DEF OutboxAssumption, Stage, Crossing
    <3> QED
      BY <1>3, <3>1 DEF Marks
  <2>2. \A s \in 1..k : {<<s, r, src'[r]>> : r \in Crossing(s, R)} \subseteq Marks
    BY <2>1
  <2>3. crossed' = crossed \cup UNION {{<<s, r, src'[r]>> : r \in Crossing(s, R)} : s \in 1..k}
    BY DEF Change
  <2> QED
    BY <1>0, <2>2, <2>3, TypesUnfold
<1>5. forgotten' \subseteq Marks
  BY <1>0, <1>3, RememberType DEF Change
<1>6. TypeOK'
  BY <1>0, <1>1, <1>3, <1>4, <1>5, TypesUnfold DEF Change
<1>7. AtHeldItem' /\ ChunksOfItem'
  BY <1>0 DEF BaseInv, AtHeldItem, ChunksOfItem
<1>8. HeldAsStored'
  BY <1>0, <1>1, SettledKeepsHeld DEF BaseInv
<1> QED
  BY <1>1, <1>6, <1>7, <1>8 DEF BaseInv

LEMMA LeaseStepsKeep ==
  ASSUME BaseInv,
         (\E w \in Worker : Heartbeat(w)) \/ (\E t \in TaskId : Clock(t))
  PROVE  /\ BaseInv' /\ \A t \in TaskId : SameRow(t) /\ Settled(t)
         /\ UNCHANGED <<src, comp, dead, hold, job, crossed, forgotten>>
<1>0. TypeOK /\ MaxFaults \in Nat
  BY OutboxAssumption DEF BaseInv, OutboxAssumption
<1>1. /\ UNCHANGED <<src, comp, dead, hold, job, crossed, forgotten>> /\ faults' \in 0..MaxFaults
      /\ outbox' \in [TaskId -> Row] /\ \A t \in TaskId : SameRow(t) /\ Settled(t)
  <2>1. ASSUME NEW w \in Worker, Heartbeat(w)
        PROVE  /\ UNCHANGED <<src, comp, dead, hold, job, crossed, forgotten>> /\ faults' \in 0..MaxFaults
               /\ outbox' \in [TaskId -> Row] /\ \A t \in TaskId : SameRow(t) /\ Settled(t)
    <3> PICK late \in SUBSET TaskId : late = {t \in TaskId : Owns(w, t) /\ Held(w, t) /\ Stale(t)}
      OBVIOUS
    <3>1. outbox' = [t \in TaskId |-> IF t \in late THEN [outbox[t] EXCEPT !.fresh = TRUE]
                                                    ELSE outbox[t]]
      BY <2>1 DEF Heartbeat
    <3>2. outbox' \in [TaskId -> Row] /\ \A t \in TaskId : SameRow(t) /\ Settled(t)
      BY <1>0, <3>1, LeasesMove
    <3> QED
      BY <1>0, <2>1, <3>2, TypesUnfold DEF Heartbeat
  <2>2. ASSUME NEW u \in TaskId, Clock(u)
        PROVE  /\ UNCHANGED <<src, comp, dead, hold, job, crossed, forgotten>> /\ faults' \in 0..MaxFaults
               /\ outbox' \in [TaskId -> Row] /\ \A t \in TaskId : SameRow(t) /\ Settled(t)
    <3>1. /\ outbox' = [outbox EXCEPT ![u].fresh = FALSE]
          /\ UNCHANGED <<src, comp, dead, hold, job, crossed, forgotten>>
          /\ faults' = faults \/ (faults < MaxFaults /\ faults' = faults + 1)
      BY <2>2 DEF Clock, LeaseExpires, Stall
    <3>2. outbox' = [t \in TaskId |-> IF t \in {u} THEN [outbox[t] EXCEPT !.fresh = FALSE]
                                                   ELSE outbox[t]]
      BY <1>0, <3>1, TypesUnfold
    <3>3. outbox' \in [TaskId -> Row] /\ \A t \in TaskId : SameRow(t) /\ Settled(t)
      BY <1>0, <3>2, LeasesMove
    <3> QED
      BY <1>0, <3>1, <3>3, TypesUnfold
  <2> QED
    BY <2>1, <2>2
<1>2. TypeOK'
  BY <1>0, <1>1, TypesUnfold
<1>3. AtHeldItem' /\ ChunksOfItem'
  BY <1>1 DEF BaseInv, AtHeldItem, ChunksOfItem
<1>4. HeldAsStored'
  BY <1>0, <1>1, SettledKeepsHeld DEF BaseInv
<1> QED
  BY <1>1, <1>2, <1>3, <1>4 DEF BaseInv

LEMMA CrashKeeps ==
  ASSUME BaseInv, NEW w \in Worker, Crash(w)
  PROVE  /\ BaseInv' /\ \A t \in TaskId : Settled(t)
         /\ \A v \in Worker \ {w} : job'[v] = job[v]
         /\ job'[w].phase = "idle" /\ faults' # faults
<1>0. TypeOK /\ MaxFaults \in Nat
  BY OutboxAssumption DEF BaseInv, OutboxAssumption
<1>1. /\ hold' \in [Worker -> SUBSET Item] /\ job' \in [Worker -> Jobs]
      /\ \A v \in Worker \ {w} : job'[v] = job[v] /\ hold'[v] = hold[v]
      /\ job'[w].phase = "idle" /\ hold'[w] = {}
      /\ faults' \in 0..MaxFaults /\ faults' # faults
  BY <1>0, IdleType, TypesUnfold DEF Crash, Idle
<1>2. TypeOK' /\ \A t \in TaskId : Settled(t)
  BY <1>0, <1>1, TypesUnfold DEF Crash, Settled
<1>3. AtHeldItem' /\ ChunksOfItem'
  BY <1>1 DEF BaseInv, AtHeldItem, ChunksOfItem
<1>4. \A v \in Worker : hold'[v] \subseteq hold[v]
  BY <1>1
<1>5. HeldAsStored'
  BY <1>0, <1>2, <1>4, SettledKeepsHeld DEF BaseInv
<1> QED
  BY <1>1, <1>2, <1>3, <1>5 DEF BaseInv

LEMMA ReplayKeeps ==
  ASSUME BaseInv, NEW d \in dead, Replay(d)
  PROVE  /\ BaseInv' /\ \A t \in TaskId : Settled(t)
         /\ d.stage \in Stage /\ faults' # faults
         /\ \A t \in TaskId : outbox[t].status # "absent" => outbox'[t] = outbox[t]
         /\ \E y \in TaskId : Enqueued(outbox, outbox', y, d.stage, d.seeds)
<1>0. TypeOK /\ MaxFaults \in Nat
  BY OutboxAssumption DEF BaseInv, OutboxAssumption
<1>1. d.stage \in Stage /\ d.path \in Seq(Nat) /\ d.seeds \in SUBSET Record
  BY <1>0 DEF TypeOK, Letter
<1> PICK y : y = CHOOSE t \in FreeIds(outbox) : TRUE
  OBVIOUS
<1>2. y \in TaskId /\ outbox[y].status = "absent"
  <2>1. y \in FreeIds(outbox)
    BY DEF Replay
  <2> QED
    BY <2>1 DEF FreeIds
<1> PICK m : m = [NewRow(d.stage, d.path, d.seeds) EXCEPT !.spilled = FALSE]
  OBVIOUS
<1>3. m \in Row /\ m.status = "pending" /\ m.stage = d.stage /\ m.seeds = d.seeds
  BY <1>1, ReplayedType
<1>4. outbox' = [outbox EXCEPT ![y] = m]
  BY DEF Replay
<1>5. Enqueued(outbox, outbox', y, d.stage, d.seeds)
  BY <1>0, <1>2, <1>3, <1>4, TypesUnfold DEF Enqueued
<1>6. outbox' \in [TaskId -> Row] /\ \A t \in TaskId : Settled(t)
  BY <1>5, EnqueuedSettles
<1>7. faults' \in 0..MaxFaults /\ faults' # faults
  BY <1>0, TypesUnfold DEF Replay
<1>8. \A t \in TaskId : outbox[t].status # "absent" => outbox'[t] = outbox[t]
  BY <1>0, <1>2, <1>4, TypesUnfold
<1>9. TypeOK'
  BY <1>0, <1>6, <1>7, TypesUnfold DEF Replay
<1>10. AtHeldItem' /\ ChunksOfItem'
  BY DEF BaseInv, AtHeldItem, ChunksOfItem, Replay
<1>11. HeldAsStored'
  BY <1>0, <1>6, SettledKeepsHeld DEF BaseInv, Replay
<1>12. BaseInv'
  BY <1>9, <1>10, <1>11 DEF BaseInv
<1>13. \E z \in TaskId : Enqueued(outbox, outbox', z, d.stage, d.seeds)
  BY <1>2, <1>5
<1> QED
  BY <1>1, <1>6, <1>7, <1>8, <1>12, <1>13

LEMMA StutterKeeps ==
  ASSUME BaseInv, UNCHANGED vars
  PROVE  BaseInv' /\ \A t \in TaskId : SameRow(t) /\ Settled(t)
<1>1. \A t \in TaskId : SameRow(t) /\ Settled(t)
  BY DEF vars, SameRow, Settled
<1>2. TypeOK'
  BY TypesUnfold DEF BaseInv, vars
<1>3. AtHeldItem' /\ ChunksOfItem'
  BY DEF BaseInv, AtHeldItem, ChunksOfItem, vars
<1>4. HeldAsStored'
  BY <1>1, SettledKeepsHeld DEF BaseInv, vars
<1> QED
  BY <1>1, <1>2, <1>3, <1>4 DEF BaseInv

-----------------------------------------------------------------------------
(***************************************************************************)
(* Types, and what a claimed item and its row agree on.                    *)
(***************************************************************************)
LEMMA BaseInit == Init => BaseInv
<1> SUFFICES ASSUME Init PROVE BaseInv
  OBVIOUS
<1>1. 0 \in Version /\ 0 \in 0..MaxFaults
  BY OutboxAssumption DEF OutboxAssumption, Version
<1>2. TypeOK
  BY <1>1, AbsentType, IdleType, TypesUnfold DEF Init
<1>3. \A w \in Worker : job[w].phase = "idle" /\ hold[w] = {}
  BY DEF Init, Idle
<1> QED
  BY <1>2, <1>3 DEF BaseInv, AtHeldItem, ChunksOfItem, HeldAsStored

LEMMA BaseStep == BaseInv /\ [Next]_vars => BaseInv'
<1> SUFFICES ASSUME BaseInv, [Next]_vars PROVE BaseInv'
  OBVIOUS
<1>1. ASSUME NEW R \in SUBSET Record, NEW k \in 0..Stages, Change(R, k) PROVE BaseInv'
  BY <1>1, ChangeKeeps
<1>2. ASSUME NEW w \in Worker, Claim(w) PROVE BaseInv'
  BY <1>2, ClaimKeeps, TakeRowsKeeps
<1>3. ASSUME NEW w \in Worker, ItemStep(w) PROVE BaseInv'
  BY <1>3, StartKeeps, SkipLostKeeps, EnqueueChunkKeeps, FinishSplitKeeps, TryLocksKeeps,
     CommitKeeps, ReleaseKeeps DEF ItemStep
<1>4. ASSUME NEW w \in Worker, Crash(w) PROVE BaseInv'
  BY <1>4, CrashKeeps
<1>5. ASSUME NEW w \in Worker, NEW fatal \in BOOLEAN, Fail(w, fatal) PROVE BaseInv'
  BY <1>5, FailKeeps
<1>6. ASSUME (\E w \in Worker : Heartbeat(w)) \/ (\E t \in TaskId : Clock(t)) PROVE BaseInv'
  BY <1>6, LeaseStepsKeep
<1>7. ASSUME NEW d \in dead, Replay(d) PROVE BaseInv'
  BY <1>7, ReplayKeeps
<1>8. CASE UNCHANGED vars
  BY <1>8, StutterKeeps
<1> QED
  BY <1>1, <1>2, <1>3, <1>4, <1>5, <1>6, <1>7, <1>8 DEF Next

LEMMA AlwaysBaseInv == Spec => []BaseInv
BY BaseInit, BaseStep, PTL DEF Spec

\* For every instance, merging, splitting, retries and replays write rows of the
\* outbox's columns: no row has more attempts than maxAttempts, no cell a version that
\* its record has not had.
THEOREM OutboxTyped == Spec => []TypeOK
<1>1. BaseInv => TypeOK
  BY DEF BaseInv
<1> QED
  BY <1>1, AlwaysBaseInv, PTL

\* While a worker owns a row, the row is the item the worker claimed: nothing is merged
\* into a row in processing, so markDone deletes no seed that was not handled.
THEOREM HeldItemsAsStored == Spec => []HeldAsStored
<1>1. BaseInv => HeldAsStored
  BY DEF BaseInv
<1> QED
  BY <1>1, AlwaysBaseInv, PTL

-----------------------------------------------------------------------------
(***************************************************************************)
(* Merging forgets no seed, but those of a seed task that were spilled     *)
(* (mergeSeedTask: the run OutboxSeedMerge).                               *)
(***************************************************************************)
GrowsAt(t) ==
  outbox[t].status # "absent" /\ outbox'[t].status # "absent" /\ Keeps(outbox[t])
    => outbox[t].seeds \subseteq outbox'[t].seeds

GrowsTo(next, t) ==
  outbox[t].status # "absent" /\ Keeps(outbox[t]) => outbox[t].seeds \subseteq next[t].seeds

LEMMA EnqueuedGrows ==
  ASSUME NEW next, NEW y, NEW s, NEW S, Enqueued(outbox, next, y, s, S)
  PROVE  \A t \in TaskId : GrowsTo(next, t)
BY DEF Enqueued, GrowsTo

LEMMA NextStageGrows ==
  ASSUME NEW next, NEW s, NEW S, NextStage(next, s, S)
  PROVE  \A t \in TaskId : GrowsTo(next, t)
<1>1. CASE next = outbox
  BY <1>1 DEF GrowsTo
<1> QED
  BY <1>1, EnqueuedGrows DEF NextStage

LEMMA DeletedGrows ==
  ASSUME NEW next \in [TaskId -> Row], NEW u \in TaskId, outbox' = Delete(next, u),
         \A t \in TaskId : GrowsTo(next, t)
  PROVE  \A t \in TaskId : GrowsAt(t)
BY DeleteFacts DEF GrowsAt, GrowsTo

LEMMA ToPendingGrows ==
  ASSUME TypeOK, NEW u \in TaskId, NEW n \in 0..MaxAttempts,
         outbox' = [outbox EXCEPT ![u] = ToPending(@, n)]
  PROVE  \A t \in TaskId : GrowsAt(t)
<1> PICK row : row = ToPending(outbox[u], n)
  OBVIOUS
<1>1. row.seeds = outbox[u].seeds
  BY ToPendingFacts, TypesUnfold
<1>2. outbox' = [outbox EXCEPT ![u] = row]
  OBVIOUS
<1> QED
  BY <1>1, <1>2, TypesUnfold DEF GrowsAt

LEMMA StepGrows ==
  ASSUME BaseInv, [Next]_vars
  PROVE  \A t \in TaskId : GrowsAt(t)
<1>0. TypeOK /\ outbox \in [TaskId -> Row]
  BY TypesUnfold DEF BaseInv
<1>1. ASSUME NEW R \in SUBSET Record, NEW k \in 0..Stages, Change(R, k)
      PROVE  \A t \in TaskId : GrowsAt(t)
  BY <1>1, ChangeKeeps, NextStageGrows DEF GrowsAt, GrowsTo
<1>2. ASSUME NEW w \in Worker, Claim(w) PROVE \A t \in TaskId : GrowsAt(t)
  <2>1. PICK T \in SUBSET TaskId : hold[w] = {} /\ TakeRows(w, T) /\ faults' \in 0..MaxFaults
    BY <1>2, ClaimKeeps
  <2> QED
    BY <2>1, TakeRowsKeeps DEF GrowsAt
<1>3. ASSUME NEW w \in Worker, NEW i \in hold[w], Start(w, i) PROVE \A t \in TaskId : GrowsAt(t)
  BY <1>3, StartKeeps DEF GrowsAt, SameRow
<1>4. ASSUME outbox' = outbox PROVE \A t \in TaskId : GrowsAt(t)
  BY <1>4 DEF GrowsAt
<1>5. ASSUME NEW w \in Worker, EnqueueChunk(w) PROVE \A t \in TaskId : GrowsAt(t)
  BY <1>5, EnqueueChunkKeeps, EnqueuedGrows DEF GrowsAt, GrowsTo
<1>6. ASSUME NEW w \in Worker, FinishSplit(w) PROVE \A t \in TaskId : GrowsAt(t)
  <2>1. job[w].item.task \in TaskId
    BY AtItem
  <2>2. outbox' = outbox \/ outbox' = Delete(outbox, job[w].item.task)
    BY <1>6 DEF FinishSplit
  <2>3. \A t \in TaskId : GrowsTo(outbox, t)
    BY DEF GrowsTo
  <2> QED
    BY <1>0, <1>4, <2>1, <2>2, <2>3, DeletedGrows
<1>7. ASSUME NEW w \in Worker, Commit(w) PROVE \A t \in TaskId : GrowsAt(t)
  <2>1. job[w].item.task \in TaskId
    BY AtItem
  <2>2. PICK next \in [TaskId -> Row] :
          /\ NextStage(next, job[w].item.stage, job[w].item.seeds)
          /\ outbox' = Delete(next, job[w].item.task) \/ outbox' = next
    BY <1>7, CommitKeeps
  <2>3. \A t \in TaskId : GrowsTo(next, t)
    BY <2>2, NextStageGrows
  <2>4. CASE outbox' = next
    BY <2>3, <2>4 DEF GrowsAt, GrowsTo
  <2>5. CASE outbox' = Delete(next, job[w].item.task)
    BY <2>1, <2>3, <2>5, DeletedGrows
  <2> QED
    BY <2>2, <2>4, <2>5
<1>8. ASSUME NEW w \in Worker, Release(w) PROVE \A t \in TaskId : GrowsAt(t)
  <2>1. job[w].item.task \in TaskId
    BY AtItem
  <2>2. CASE \E next \in [TaskId -> Row], y \in TaskId :
               /\ Enqueued(outbox, next, y, job[w].item.stage, job[w].item.seeds)
               /\ outbox' = Delete(next, job[w].item.task)
    BY <2>1, <2>2, EnqueuedGrows, DeletedGrows
  <2>3. CASE outbox' = [outbox EXCEPT ![job[w].item.task] = ToPending(@, @.attempts)]
    <3>1. outbox[job[w].item.task].attempts \in 0..MaxAttempts
      BY <1>0, <2>1 DEF Row
    <3>2. outbox' = [outbox EXCEPT ![job[w].item.task] = ToPending(@, outbox[job[w].item.task].attempts)]
      BY <2>3
    <3> QED
      BY <1>0, <2>1, <3>1, <3>2, ToPendingGrows
  <2> QED
    BY <1>4, <1>8, <2>2, <2>3, ReleaseKeeps
<1>9. ASSUME NEW w \in Worker, NEW fatal \in BOOLEAN, Fail(w, fatal)
      PROVE  \A t \in TaskId : GrowsAt(t)
  <2>1. job[w].item.task \in TaskId
    BY AtItem
  <2>2. \/ outbox' = outbox \/ outbox' = Delete(outbox, job[w].item.task)
        \/ \E n \in 0..MaxAttempts : outbox' = [outbox EXCEPT ![job[w].item.task] = ToPending(@, n)]
    BY <1>9, FailKeeps
  <2>3. \A t \in TaskId : GrowsTo(outbox, t)
    BY DEF GrowsTo
  <2> QED
    BY <1>0, <1>4, <2>1, <2>2, <2>3, DeletedGrows, ToPendingGrows
<1>10. ASSUME NEW d \in dead, Replay(d) PROVE \A t \in TaskId : GrowsAt(t)
  BY <1>10, ReplayKeeps, EnqueuedGrows DEF GrowsAt, GrowsTo
<1>11. ASSUME (\E w \in Worker : Heartbeat(w)) \/ (\E t \in TaskId : Clock(t))
       PROVE  \A t \in TaskId : GrowsAt(t)
  BY <1>11, LeaseStepsKeep DEF GrowsAt, SameRow
<1>12. ASSUME NEW w \in Worker, ItemStep(w) PROVE \A t \in TaskId : GrowsAt(t)
  BY <1>3, <1>4, <1>5, <1>6, <1>7, <1>8, <1>12 DEF ItemStep, SkipLost, TryLocks
<1>13. ASSUME NEW w \in Worker, Crash(w) PROVE \A t \in TaskId : GrowsAt(t)
  BY <1>4, <1>13 DEF Crash
<1> QED
  BY <1>1, <1>2, <1>4, <1>9, <1>10, <1>11, <1>12, <1>13 DEF Next, vars

\* A row that stays names what it named, whatever is merged into it, unless it is a
\* seed task that was too large for its row.
THEOREM SeedsNeverForgotten == Spec => OnlySpilledForgotten
<1>1. BaseInv /\ [Next]_vars =>
        [\A t \in TaskId :
           /\ outbox[t].status # "absent" /\ outbox'[t].status # "absent"
           /\ ~(outbox[t].stage \in SeedStages /\ outbox[t].spilled)
           => outbox[t].seeds \subseteq outbox'[t].seeds]_vars
  BY StepGrows DEF GrowsAt, Keeps
<1> QED
  BY <1>1, AlwaysBaseInv, PTL DEF Spec, OnlySpilledForgotten

-----------------------------------------------------------------------------
(***************************************************************************)
(* A live lease is only given up by its owner, or to a takeover.           *)
(***************************************************************************)
Left(t, w) == outbox'[t].status # "processing" \/ outbox'[t].owner # w

LEMMA FinishReleases ==
  ASSUME BaseInv, NEW w \in Worker, job[w].phase # "idle", Finish(w)
  PROVE  hold'[w] # hold[w]
<1>1. job[w].item \in hold[w] /\ hold'[w] = hold[w] \ {job[w].item}
  BY AtItem, TypesUnfold DEF BaseInv, Finish
<1> QED
  BY <1>1

LEMMA EnqueuedLeavesOwned ==
  ASSUME NEW next, NEW y, NEW s, NEW S, Enqueued(outbox, next, y, s, S)
  PROVE  \A t \in TaskId : outbox[t].status = "processing" => next[t] = outbox[t]
BY DEF Enqueued

LEMMA NextStageLeavesOwned ==
  ASSUME NEW next, NEW s, NEW S, NextStage(next, s, S)
  PROVE  \A t \in TaskId : outbox[t].status = "processing" => next[t] = outbox[t]
BY EnqueuedLeavesOwned DEF NextStage

LEMMA StepHonours ==
  ASSUME BaseInv, [Next]_vars, NEW t \in TaskId, NEW w \in Worker,
         Owns(w, t), outbox[t].fresh, Left(t, w)
  PROVE  hold'[w] # hold[w] \/ faults' # faults
<1>0. TypeOK /\ outbox \in [TaskId -> Row] /\ outbox[t].status = "processing" /\ outbox[t].owner = w
  BY TypesUnfold DEF BaseInv, Owns
<1>1. outbox'[t] # outbox[t] /\ ~SameRow(t)
  BY <1>0 DEF Left, SameRow
<1>2. ASSUME NEW v \in Worker, Claim(v) PROVE faults' # faults
  <2>1. PICK T \in SUBSET TaskId :
          /\ hold[v] = {} /\ TakeRows(v, T) /\ faults' \in 0..MaxFaults
          /\ faults' # faults \/ \A u \in T : ~(outbox[u].status = "processing" /\ outbox[u].fresh)
    BY <1>2, ClaimKeeps
  <2>2. t \in T
    BY <1>1, <2>1, TakeRowsKeeps
  <2> QED
    BY <1>0, <2>1, <2>2
<1>3. ASSUME NEW v \in Worker, Finish(v), job[v].phase # "idle",
             NEW next \in [TaskId -> Row],
             \A u \in TaskId : outbox[u].status = "processing" => next[u] = outbox[u],
             \/ outbox' = next
             \/ /\ Owns(v, job[v].item.task)
                /\ \A u \in TaskId \ {job[v].item.task} : outbox'[u] = next[u]
      PROVE  hold'[w] # hold[w]
  <2>1. outbox'[t] # next[t]
    BY <1>0, <1>1, <1>3
  <2>2. t = job[v].item.task /\ Owns(v, t)
    BY <1>3, <2>1
  <2>3. v = w
    BY <1>0, <2>2 DEF Owns
  <2> QED
    BY <1>3, <2>3, FinishReleases
<1>4. ASSUME NEW v \in Worker, NEW i \in hold[v], Start(v, i) PROVE FALSE
  BY <1>1, <1>4, StartKeeps
<1>5. ASSUME NEW v \in Worker, EnqueueChunk(v) PROVE FALSE
  BY <1>0, <1>1, <1>5, EnqueueChunkKeeps, EnqueuedLeavesOwned
<1>6. ASSUME NEW v \in Worker, FinishSplit(v) PROVE hold'[w] # hold[w]
  <2>1. job[v].item.task \in TaskId /\ job[v].phase # "idle"
    BY <1>6, AtItem DEF FinishSplit
  <2>2. Owns(v, job[v].item.task) /\ outbox' = Delete(outbox, job[v].item.task) /\ Finish(v)
    BY <1>1, <1>6 DEF FinishSplit
  <2> QED
    BY <1>0, <1>3, <2>1, <2>2, DeleteFacts
<1>7. ASSUME NEW v \in Worker, Commit(v) PROVE hold'[w] # hold[w]
  <2>1. job[v].item.task \in TaskId /\ job[v].phase # "idle" /\ Finish(v)
    BY <1>7, AtItem DEF Commit
  <2>2. PICK next \in [TaskId -> Row] :
          /\ NextStage(next, job[v].item.stage, job[v].item.seeds)
          /\ outbox' = IF Owns(v, job[v].item.task) THEN Delete(next, job[v].item.task) ELSE next
    BY <1>7, CommitKeeps
  <2> QED
    BY <1>3, <2>1, <2>2, NextStageLeavesOwned, DeleteFacts
<1>8. ASSUME NEW v \in Worker, Release(v) PROVE hold'[w] # hold[w]
  <2>1. job[v].item.task \in TaskId /\ job[v].phase # "idle" /\ Finish(v)
    BY <1>8, AtItem DEF Release
  <2>2. CASE \E next \in [TaskId -> Row], y \in TaskId :
               /\ Owns(v, job[v].item.task)
               /\ Enqueued(outbox, next, y, job[v].item.stage, job[v].item.seeds)
               /\ outbox' = Delete(next, job[v].item.task)
    <3> PICK next \in [TaskId -> Row], y \in TaskId :
               /\ Owns(v, job[v].item.task)
               /\ Enqueued(outbox, next, y, job[v].item.stage, job[v].item.seeds)
               /\ outbox' = Delete(next, job[v].item.task)
      BY <2>2
    <3>1. \A u \in TaskId : outbox[u].status = "processing" => next[u] = outbox[u]
      BY EnqueuedLeavesOwned
    <3>2. \A u \in TaskId \ {job[v].item.task} : outbox'[u] = next[u]
      BY <2>1, DeleteFacts
    <3> QED
      BY <1>3, <2>1, <3>1, <3>2
  <2>3. CASE /\ Owns(v, job[v].item.task)
             /\ outbox' = [outbox EXCEPT ![job[v].item.task] = ToPending(@, @.attempts)]
    BY <1>0, <1>3, <2>1, <2>3
  <2> QED
    BY <1>1, <1>8, <2>2, <2>3, ReleaseKeeps
<1>9. ASSUME NEW v \in Worker, ItemStep(v) PROVE hold'[w] # hold[w]
  BY <1>1, <1>4, <1>5, <1>6, <1>7, <1>8, <1>9 DEF ItemStep, SkipLost, TryLocks
<1>10. ASSUME NEW R \in SUBSET Record, NEW k \in 0..Stages, Change(R, k) PROVE FALSE
  BY <1>0, <1>1, <1>10, ChangeKeeps, NextStageLeavesOwned
<1>11. ASSUME NEW v \in Worker, NEW fatal \in BOOLEAN, Fail(v, fatal) PROVE faults' # faults
  BY <1>11, FailKeeps
<1>12. ASSUME NEW v \in Worker, Crash(v) PROVE faults' # faults
  BY <1>12, CrashKeeps
<1>13. ASSUME NEW d \in dead, Replay(d) PROVE faults' # faults
  BY <1>13, ReplayKeeps
<1>14. ASSUME (\E v \in Worker : Heartbeat(v)) \/ (\E u \in TaskId : Clock(u)) PROVE FALSE
  BY <1>1, <1>14, LeaseStepsKeep
<1>15. ASSUME UNCHANGED vars PROVE FALSE
  BY <1>1, <1>15 DEF vars
<1> QED
  BY <1>2, <1>9, <1>10, <1>11, <1>12, <1>13, <1>14, <1>15 DEF Next

\* While its lease lives, a row is taken from its worker by nobody but a takeover:
\* claims, deletions and releases of other workers pass it by.
THEOREM LeasesHonoured == Spec => LeaseHonoured
<1>1. BaseInv /\ [Next]_vars =>
        [\A t \in TaskId, w \in Worker :
           /\ Owns(w, t) /\ outbox[t].fresh
           /\ outbox'[t].status # "processing" \/ outbox'[t].owner # w
           => hold'[w] # hold[w] \/ faults' # faults]_vars
  BY StepHonours DEF Left
<1> QED
  BY <1>1, AlwaysBaseInv, PTL DEF Spec, LeaseHonoured

-----------------------------------------------------------------------------
(***************************************************************************)
(* The cells.  Sets of records that meet share a lock key if they are      *)
(* locked in the same way; if not, what they share is marked as crossed.   *)
(***************************************************************************)
\* Record r was crossed at stage s or before it.
CrossedUpTo(s, r) == \E c \in crossed : c[1] \in 1..s /\ c[2] = r

\* No cell is ahead of its record, nor, where nothing was crossed, of its input.
Behind ==
  \A s \in Stage, r \in Record :
    /\ comp[s][r] <= src[r]
    /\ CrossedUpTo(s, r) \/ comp[s][r] <= In(s, r)

\* What a worker in its transaction has read is between the cell and its input.
ReadsBetween ==
  \A w \in Worker, s \in Stage : job[w].phase = "running" /\ job[w].item.stage = s =>
    \A r \in job[w].item.seeds :
      /\ job[w].reads[r] <= src[r]
      /\ \/ CrossedUpTo(s, r)
         \/ comp[s][r] <= job[w].reads[r] /\ job[w].reads[r] <= In(s, r)

\* Two transactions of a stage that share a record have crossed it.
RunningApart ==
  \A s \in Stage : \A v, w \in Running(s) : v # w =>
    \A r \in job[v].item.seeds \cap job[w].item.seeds : CrossedUpTo(s, r)

CellsInv == Behind /\ ReadsBetween /\ RunningApart

\* No worker enters a transaction, and those inside keep what they read.
NobodyStarts ==
  \A v \in Worker : job'[v].phase = "running" => job'[v] = job[v]

LEMMA Numbers ==
  ASSUME TypeOK, NEW s \in Stage, NEW r \in Record
  PROVE  src[r] \in Nat /\ comp[s][r] \in Nat /\ In(s, r) \in Nat
<1>1. Version \subseteq Nat
  BY DEF Version
<1> QED
  BY <1>1, InType, TypesUnfold

LEMMA NumbersNext ==
  ASSUME TypeOK', NEW s \in Stage, NEW r \in Record
  PROVE  src'[r] \in Nat /\ comp'[s][r] \in Nat /\ In(s, r)' \in Nat
<1>1. Version \subseteq Nat
  BY DEF Version
<1> QED
  BY <1>1, InTypeNext, TypesUnfold

LEMMA InBelowSource ==
  ASSUME TypeOK, Behind, NEW s \in Stage, NEW r \in Record
  PROVE  In(s, r) <= src[r]
<1>1. CASE s = 1
  BY <1>1, Numbers DEF In
<1>2. CASE s # 1
  <2>1. s - 1 \in Stage
    BY <1>2, OutboxAssumption DEF Stage, OutboxAssumption
  <2> QED
    BY <1>2, <2>1 DEF In, Behind
<1> QED
  BY <1>1, <1>2

\* The locks of a stage are to be had: whoever is inside its transaction there shares
\* no record, or has locks of the other kind.
LEMMA FreeOrCrossing ==
  ASSUME NEW s, NEW S \in SUBSET Record, LocksFree(s, S),
         NEW v \in Running(s), NEW r \in S \cap job[v].item.seeds
  PROVE  r \in Crossing(s, S)
<1> PICK T : T = job[v].item.seeds
  OBVIOUS
<1>1. v \in Worker /\ LockKeys(S) \cap LockKeys(T) = {}
  BY DEF LocksFree, Running
<1>2. LockKind(S) # LockKind(T)
  <2> SUFFICES ASSUME LockKind(S) = LockKind(T) PROVE FALSE
    OBVIOUS
  <2>1. CASE LockKind(S) = "record"
    <3>1. <<"record", r>> \in LockKeys(S) /\ <<"record", r>> \in LockKeys(T)
      BY <2>1 DEF LockKeys
    <3> QED
      BY <1>1, <3>1
  <2>2. CASE LockKind(S) # "record"
    <3>1. <<"batch", Shard[r]>> \in LockKeys(S) /\ <<"batch", Shard[r]>> \in LockKeys(T)
      BY <2>2 DEF LockKeys
    <3> QED
      BY <1>1, <3>1
  <2> QED
    BY <2>1, <2>2
<1> QED
  BY <1>1, <1>2 DEF Crossing

\* What was crossed stays so, at the later stages too.
LEMMA CrossedStays ==
  ASSUME crossed \subseteq crossed'
  PROVE  \A s, r : CrossedUpTo(s, r) => CrossedUpTo(s, r)'
BY DEF CrossedUpTo

LEMMA CrossedBelow ==
  ASSUME NEW s \in Stage, NEW r, CrossedUpTo(s - 1, r)
  PROVE  CrossedUpTo(s, r)
<1> PICK c \in crossed : c[1] \in 1..(s - 1) /\ c[2] = r
  BY DEF CrossedUpTo
<1>1. s \in Nat
  BY OutboxAssumption DEF Stage, OutboxAssumption
<1>2. c[1] \in 1..s
  BY <1>1
<1> QED
  BY <1>2 DEF CrossedUpTo

LEMMA MarkedCrossed ==
  ASSUME NEW s \in Stage, NEW r, NEW n, <<s, r, n>> \in crossed'
  PROVE  CrossedUpTo(s, r)'
<1> PICK c \in crossed' : c = <<s, r, n>>
  OBVIOUS
<1>1. c[1] \in 1..s /\ c[2] = r
  BY OutboxAssumption DEF Stage, OutboxAssumption
<1> QED
  BY <1>1 DEF CrossedUpTo

LEMMA QuietCells ==
  ASSUME CellsInv, UNCHANGED <<src, comp, crossed>>, NobodyStarts
  PROVE  CellsInv'
<1>1. \A s, r : In(s, r)' = In(s, r) /\ CrossedUpTo(s, r)' = CrossedUpTo(s, r)
  BY DEF In, CrossedUpTo
<1>2. Behind'
  BY <1>1 DEF CellsInv, Behind
<1>3. ReadsBetween'
  BY <1>1 DEF CellsInv, ReadsBetween, NobodyStarts
<1>4. RunningApart'
  BY <1>1 DEF CellsInv, RunningApart, Running, NobodyStarts
<1> QED
  BY <1>2, <1>3, <1>4 DEF CellsInv

LEMMA TryLocksCells ==
  ASSUME BaseInv, CellsInv, NEW w \in Worker, TryLocks(w)
  PROVE  CellsInv'
<1> PICK i \in Item : i = job[w].item
  BY AtItem
<1>1. i.stage \in Stage /\ i.seeds \in SUBSET Record /\ TypeOK
  BY AtItem DEF BaseInv
<1>2. src' = src /\ comp' = comp /\ \A s, r : In(s, r)' = In(s, r)
  BY DEF TryLocks, In
<1>3. /\ \A v \in Worker \ {w} : job'[v] = job[v]
      /\ job'[w].item = i /\ crossed \subseteq crossed'
      /\ job'[w].phase = "running" =>
           /\ LocksFree(i.stage, i.seeds)
           /\ \A r \in Crossing(i.stage, i.seeds) : <<i.stage, r, In(i.stage, r)>> \in crossed'
           /\ \A r \in i.seeds : job'[w].reads[r] = In(i.stage, r)
  BY TryLocksKeeps
<1>4. \A s, r : CrossedUpTo(s, r) => CrossedUpTo(s, r)'
  BY <1>3, CrossedStays
<1>5. Behind'
  BY <1>2, <1>4 DEF CellsInv, Behind
<1>6. ReadsBetween'
  <2> SUFFICES ASSUME NEW v \in Worker, NEW s \in Stage, job'[v].phase = "running",
                      job'[v].item.stage = s, NEW r \in job'[v].item.seeds
               PROVE  /\ job'[v].reads[r] <= src[r]
                      /\ \/ CrossedUpTo(s, r)'
                         \/ comp[s][r] <= job'[v].reads[r] /\ job'[v].reads[r] <= In(s, r)
    BY <1>2 DEF ReadsBetween
  <2>1. CASE v # w
    BY <1>3, <1>4, <2>1 DEF CellsInv, ReadsBetween
  <2>2. CASE v = w
    <3>1. r \in i.seeds /\ s = i.stage /\ job'[v].reads[r] = In(s, r) /\ In(s, r) \in Nat
      BY <1>1, <1>3, <2>2, Numbers
    <3>2. In(s, r) <= src[r]
      BY <1>1, <3>1, InBelowSource DEF CellsInv
    <3>3. CrossedUpTo(s, r) \/ comp[s][r] <= In(s, r)
      BY <1>1, <3>1 DEF CellsInv, Behind
    <3> QED
      BY <1>4, <3>1, <3>2, <3>3
  <2> QED
    BY <2>1, <2>2
<1>7. ASSUME job'[w].phase = "running", NEW v \in Running(i.stage), v # w,
             NEW r \in i.seeds \cap job[v].item.seeds
      PROVE  CrossedUpTo(i.stage, r)'
  <2>1. r \in Crossing(i.stage, i.seeds)
    BY <1>1, <1>3, <1>7, FreeOrCrossing
  <2>2. <<i.stage, r, In(i.stage, r)>> \in crossed'
    BY <1>3, <1>7, <2>1
  <2> QED
    BY <1>1, <2>2, MarkedCrossed
<1>8. RunningApart'
  <2> SUFFICES ASSUME NEW s \in Stage, NEW u \in Running(s)', NEW v \in Running(s)', u # v,
                      NEW r \in job'[u].item.seeds \cap job'[v].item.seeds
               PROVE  CrossedUpTo(s, r)'
    BY DEF RunningApart
  <2>1. CASE u # w /\ v # w
    <3>1. u \in Running(s) /\ v \in Running(s) /\ job'[u] = job[u] /\ job'[v] = job[v]
      BY <1>3, <2>1 DEF Running
    <3> QED
      BY <1>4, <3>1 DEF CellsInv, RunningApart
  <2>2. CASE u = w
    <3>1. v \in Running(s) /\ job'[v] = job[v] /\ s = i.stage /\ job'[w].phase = "running"
      BY <1>3, <2>2 DEF Running
    <3> QED
      BY <1>3, <1>7, <2>2, <3>1
  <2>3. CASE v = w
    <3>1. u \in Running(s) /\ job'[u] = job[u] /\ s = i.stage /\ job'[w].phase = "running"
      BY <1>3, <2>3 DEF Running
    <3> QED
      BY <1>3, <1>7, <2>3, <3>1
  <2> QED
    BY <2>1, <2>2, <2>3
<1> QED
  BY <1>5, <1>6, <1>8 DEF CellsInv

\* What a commit does to inputs and cells.
LEMMA CommitCells ==
  ASSUME BaseInv, CellsInv, NEW w \in Worker, Commit(w), NEW q \in Stage, NEW r \in Record
  PROVE  LET i == job[w].item
         IN  /\ src' = src
             /\ q = i.stage /\ r \in i.seeds => comp'[q][r] = job[w].reads[r]
             /\ q # i.stage \/ r \notin i.seeds => comp'[q][r] = comp[q][r]
             /\ q # i.stage + 1 \/ r \notin i.seeds => In(q, r)' = In(q, r)
             /\ CrossedUpTo(q, r) \/ In(q, r) <= In(q, r)'
<1> PICK i \in Item : i = job[w].item
  BY AtItem
<1>1. i.stage \in Stage /\ TypeOK /\ job[w].phase = "running"
  BY AtItem DEF BaseInv, Commit
<1>2. src' = src /\ comp' = [comp EXCEPT ![i.stage] =
                              [x \in Record |-> IF x \in i.seeds THEN job[w].reads[x] ELSE comp[i.stage][x]]]
  BY DEF Commit
<1>3. ASSUME NEW s \in Stage
      PROVE  /\ s = i.stage /\ r \in i.seeds => comp'[s][r] = job[w].reads[r]
             /\ s # i.stage \/ r \notin i.seeds => comp'[s][r] = comp[s][r]
             /\ CrossedUpTo(s, r) \/ comp[s][r] <= comp'[s][r]
  <2>1. s = i.stage => comp'[s] = [x \in Record |-> IF x \in i.seeds THEN job[w].reads[x] ELSE comp[i.stage][x]]
    BY <1>1, <1>2, TypesUnfold
  <2>2. s # i.stage => comp'[s] = comp[s]
    BY <1>1, <1>2, TypesUnfold
  <2>3. s = i.stage /\ r \in i.seeds => CrossedUpTo(s, r) \/ comp[s][r] <= job[w].reads[r]
    BY <1>1 DEF CellsInv, ReadsBetween
  <2>4. comp[s][r] <= comp[s][r]
    BY <1>1, Numbers
  <2> QED
    BY <2>1, <2>2, <2>3, <2>4
<1>4. /\ q # i.stage + 1 \/ r \notin i.seeds => In(q, r)' = In(q, r)
      /\ CrossedUpTo(q, r) \/ In(q, r) <= In(q, r)'
  <2>1. CASE q = 1
    BY <1>1, <1>2, <2>1, Numbers DEF In
  <2>2. CASE q # 1
    <3>1. q - 1 \in Stage /\ (q - 1 = i.stage => q = i.stage + 1)
      BY <1>1, <2>2, OutboxAssumption DEF Stage, OutboxAssumption
    <3>2. CrossedUpTo(q - 1, r) => CrossedUpTo(q, r)
      BY CrossedBelow
    <3> QED
      BY <1>3, <2>2, <3>1, <3>2 DEF In
  <2> QED
    BY <2>1, <2>2
<1> QED
  BY <1>2, <1>3, <1>4

LEMMA CommitKeepsCells ==
  ASSUME BaseInv, CellsInv, NEW w \in Worker, Commit(w)
  PROVE  CellsInv'
<1> PICK i \in Item : i = job[w].item
  BY AtItem
<1>1. /\ i.stage \in Stage /\ i.seeds \in SUBSET Record /\ TypeOK
      /\ job[w].phase = "running" /\ Finish(w) /\ job[w].reads \in [Record -> Version]
      /\ w \in Running(i.stage)
  BY AtItem DEF BaseInv, Commit, Running
<1>2. job'[w].phase = "idle" /\ \A v \in Worker \ {w} : job'[v] = job[v]
  BY <1>1, FinishFacts
<1>3. TypeOK' /\ \A s, r : CrossedUpTo(s, r)' = CrossedUpTo(s, r)
  BY CommitKeeps DEF BaseInv, Commit, CrossedUpTo
<1>4. Behind'
  <2> SUFFICES ASSUME NEW q \in Stage, NEW r \in Record
               PROVE  /\ comp'[q][r] <= src'[r]
                      /\ CrossedUpTo(q, r) \/ comp'[q][r] <= In(q, r)'
    BY <1>3 DEF Behind
  <2>1. /\ comp[q][r] \in Nat /\ In(q, r) \in Nat /\ src[r] \in Nat
        /\ In(q, r)' \in Nat /\ comp'[q][r] \in Nat
    BY <1>1, <1>3, Numbers, NumbersNext
  <2>2. (CrossedUpTo(q, r) \/ In(q, r) <= In(q, r)') /\ src' = src
    BY CommitCells
  <2>3. CASE q = i.stage /\ r \in i.seeds
    <3>1. comp'[q][r] = job[w].reads[r]
      BY <2>3, CommitCells
    <3>2. /\ job[w].reads[r] <= src[r]
          /\ CrossedUpTo(q, r) \/ job[w].reads[r] <= In(q, r)
      BY <1>1, <2>3 DEF CellsInv, ReadsBetween
    <3> QED
      BY <2>1, <2>2, <3>1, <3>2
  <2>4. CASE ~(q = i.stage /\ r \in i.seeds)
    <3>1. /\ comp'[q][r] = comp[q][r] /\ comp[q][r] <= src[r]
          /\ CrossedUpTo(q, r) \/ comp[q][r] <= In(q, r)
      BY <2>4, CommitCells DEF CellsInv, Behind
    <3> QED
      BY <2>1, <2>2, <3>1
  <2> QED
    BY <2>3, <2>4
<1>5. ReadsBetween'
  <2> SUFFICES ASSUME NEW v \in Worker, NEW q \in Stage, job'[v].phase = "running",
                      job'[v].item.stage = q, NEW r \in job'[v].item.seeds
               PROVE  /\ job'[v].reads[r] <= src'[r]
                      /\ \/ CrossedUpTo(q, r)
                         \/ comp'[q][r] <= job'[v].reads[r] /\ job'[v].reads[r] <= In(q, r)'
    BY <1>3 DEF ReadsBetween
  <2>1. v # w /\ job'[v] = job[v] /\ v \in Running(q)
    BY <1>2 DEF Running
  <2>2. r \in Record /\ job[v].reads[r] \in Nat
    BY <2>1, AtItem DEF Version
  <2>3. /\ job[v].reads[r] <= src[r]
        /\ CrossedUpTo(q, r) \/ (comp[q][r] <= job[v].reads[r] /\ job[v].reads[r] <= In(q, r))
    BY <2>1 DEF CellsInv, ReadsBetween
  <2>4. CrossedUpTo(q, r) \/ comp'[q][r] = comp[q][r]
    <3>1. q = i.stage /\ r \in i.seeds => CrossedUpTo(q, r)
      BY <1>1, <2>1 DEF CellsInv, RunningApart
    <3> QED
      BY <2>2, <3>1, CommitCells
  <2>5. /\ CrossedUpTo(q, r) \/ In(q, r) <= In(q, r)'
        /\ In(q, r) \in Nat /\ In(q, r)' \in Nat /\ src' = src
    BY <1>1, <1>3, <2>2, CommitCells, Numbers, NumbersNext
  <2> QED
    BY <2>1, <2>2, <2>3, <2>4, <2>5
<1>6. RunningApart'
  <2>1. \A s : \A v \in Running(s)' : v \in Running(s) /\ job'[v] = job[v]
    BY <1>2 DEF Running
  <2> QED
    BY <1>3, <2>1 DEF CellsInv, RunningApart
<1> QED
  BY <1>4, <1>5, <1>6 DEF CellsInv

\* What a user's transaction does to inputs and cells.
LEMMA ChangeCells ==
  ASSUME BaseInv, CellsInv, NEW R \in SUBSET Record, NEW k \in 0..Stages, Change(R, k),
         NEW q \in Stage, NEW r \in Record
  PROVE  /\ q <= k /\ r \in R => comp'[q][r] = In(q, r)' /\ In(q, r)' = src'[r]
         /\ ~(q <= k /\ r \in R) => comp'[q][r] = comp[q][r]
         /\ ~(q <= k + 1 /\ r \in R) => In(q, r)' = In(q, r)
         /\ In(q, r) <= In(q, r)'
         /\ comp'[q][r] <= src'[r] /\ src[r] <= src'[r]
<1>0. TypeOK /\ Behind /\ q \in 1..Stages /\ k \in Nat /\ q \in Nat
  BY OutboxAssumption DEF BaseInv, CellsInv, Stage, OutboxAssumption
<1>1. /\ src'[r] = IF r \in R THEN src[r] + 1 ELSE src[r]
      /\ \A s \in Stage : comp'[s][r] = IF s <= k /\ r \in R THEN src[r] + 1 ELSE comp[s][r]
  BY DEF Change
<1>2. src[r] \in Nat /\ comp[q][r] \in Nat /\ comp[q][r] <= src[r] /\ In(q, r) \in Nat /\ In(q, r) <= src[r]
  BY <1>0, Numbers, InBelowSource DEF Behind
<1>3. CASE q = 1
  BY <1>0, <1>1, <1>2, <1>3 DEF In
<1>4. CASE q # 1
  <2>1. q - 1 \in Stage /\ (q - 1 <= k <=> q <= k + 1) /\ (q <= k => q - 1 <= k)
    BY <1>0, <1>4, OutboxAssumption DEF Stage, OutboxAssumption
  <2>2. In(q, r)' = comp'[q - 1][r] /\ In(q, r) = comp[q - 1][r]
    BY <1>4 DEF In
  <2>3. comp'[q - 1][r] = IF q <= k + 1 /\ r \in R THEN src[r] + 1 ELSE comp[q - 1][r]
    BY <1>1, <2>1
  <2>4. comp'[q][r] = IF q <= k /\ r \in R THEN src[r] + 1 ELSE comp[q][r]
    BY <1>1
  <2>5. q <= k => q <= k + 1
    BY <1>0
  <2> QED
    BY <1>1, <1>2, <2>2, <2>3, <2>4, <2>5
<1> QED
  BY <1>3, <1>4

\* The stages recomputed in the transaction are under its locks.
LEMMA ChangeCrosses ==
  ASSUME BaseInv, NEW R \in SUBSET Record, NEW k \in 0..Stages, Change(R, k),
         NEW v \in Worker, NEW q \in Stage, job[v].phase = "running", job[v].item.stage = q,
         q <= k, NEW r \in job[v].item.seeds \cap R
  PROVE  <<q, r, src'[r]>> \in crossed'
<1>1. q \in 1..k
  BY OutboxAssumption DEF Stage, OutboxAssumption
<1>2. LocksFree(q, R) /\ v \in Running(q)
  BY <1>1 DEF Change, Running
<1>3. r \in Crossing(q, R)
  BY <1>2, FreeOrCrossing
<1> QED
  BY <1>1, <1>3 DEF Change

LEMMA ChangeKeepsCells ==
  ASSUME BaseInv, CellsInv, NEW R \in SUBSET Record, NEW k \in 0..Stages, Change(R, k)
  PROVE  CellsInv'
<1>0. TypeOK /\ TypeOK' /\ job' = job /\ crossed \subseteq crossed'
  BY ChangeKeeps DEF BaseInv, Change
<1>1. \A s, r : CrossedUpTo(s, r) => CrossedUpTo(s, r)'
  BY <1>0, CrossedStays
<1>2. Behind'
  <2> SUFFICES ASSUME NEW q \in Stage, NEW r \in Record
               PROVE  /\ comp'[q][r] <= src'[r]
                      /\ CrossedUpTo(q, r)' \/ comp'[q][r] <= In(q, r)'
    BY DEF Behind
  <2>1. /\ comp[q][r] \in Nat /\ In(q, r) \in Nat /\ src[r] \in Nat
        /\ In(q, r)' \in Nat /\ comp'[q][r] \in Nat
    BY <1>0, Numbers, NumbersNext
  <2>2. CrossedUpTo(q, r)' \/ comp[q][r] <= In(q, r)
    BY <1>1 DEF CellsInv, Behind
  <2>3. /\ (comp'[q][r] = In(q, r)') \/ (comp'[q][r] = comp[q][r])
        /\ In(q, r) <= In(q, r)' /\ comp'[q][r] <= src'[r]
    BY ChangeCells
  <2> QED
    BY <2>1, <2>2, <2>3
<1>3. ReadsBetween'
  <2> SUFFICES ASSUME NEW v \in Worker, NEW q \in Stage, job[v].phase = "running",
                      job[v].item.stage = q, NEW r \in job[v].item.seeds
               PROVE  /\ job[v].reads[r] <= src'[r]
                      /\ \/ CrossedUpTo(q, r)'
                         \/ comp'[q][r] <= job[v].reads[r] /\ job[v].reads[r] <= In(q, r)'
    BY <1>0 DEF ReadsBetween
  <2>1. r \in Record /\ job[v].reads[r] \in Nat
    BY <1>0, AtItem DEF Version
  <2>2. /\ job[v].reads[r] <= src[r]
        /\ CrossedUpTo(q, r)' \/ (comp[q][r] <= job[v].reads[r] /\ job[v].reads[r] <= In(q, r))
    BY <1>1 DEF CellsInv, ReadsBetween
  <2>3. CrossedUpTo(q, r)' \/ comp'[q][r] = comp[q][r]
    <3>1. CASE q <= k /\ r \in R
      <4>1. <<q, r, src'[r]>> \in crossed'
        BY <3>1, ChangeCrosses
      <4> QED
        BY <4>1, MarkedCrossed
    <3> QED
      BY <2>1, <3>1, ChangeCells
  <2>4. /\ In(q, r) <= In(q, r)' /\ In(q, r) \in Nat /\ In(q, r)' \in Nat
        /\ src[r] <= src'[r] /\ src[r] \in Nat /\ src'[r] \in Nat
    BY <1>0, <2>1, ChangeCells, Numbers, NumbersNext
  <2> QED
    BY <2>1, <2>2, <2>3, <2>4
<1>4. RunningApart'
  BY <1>0, <1>1 DEF CellsInv, RunningApart, Running
<1> QED
  BY <1>2, <1>3, <1>4 DEF CellsInv

LEMMA CellsInit == Init => CellsInv
<1> SUFFICES ASSUME Init PROVE CellsInv
  OBVIOUS
<1>1. \A s \in Stage, r \in Record : comp[s][r] = 0 /\ src[r] = 0 /\ In(s, r) = 0
  <2> SUFFICES ASSUME NEW s \in Stage, NEW r \in Record PROVE comp[s][r] = 0 /\ src[r] = 0 /\ In(s, r) = 0
    OBVIOUS
  <2>1. s # 1 => s - 1 \in Stage
    BY OutboxAssumption DEF Stage, OutboxAssumption
  <2> QED
    BY <2>1 DEF Init, In
<1>2. \A w \in Worker : job[w].phase = "idle"
  BY DEF Init, Idle
<1> QED
  BY <1>1, <1>2 DEF CellsInv, Behind, ReadsBetween, RunningApart, Running

\* Every other step leaves the cells, and those inside a transaction, alone.
LEMMA OthersQuiet ==
  ASSUME BaseInv, [Next]_vars,
         ~\E R \in (SUBSET Record) \ {{}}, k \in 0..Stages : Change(R, k),
         ~\E w \in Worker : TryLocks(w) \/ Commit(w)
  PROVE  UNCHANGED <<src, comp, crossed>> /\ NobodyStarts
<1>1. ASSUME NEW w \in Worker, Claim(w) PROVE UNCHANGED <<src, comp, crossed>> /\ NobodyStarts
  BY <1>1 DEF Claim, ClaimById, ClaimBatch, TakeOver, TakeRows, NobodyStarts
<1>2. ASSUME NEW w \in Worker, NEW i \in hold[w], Start(w, i)
      PROVE  UNCHANGED <<src, comp, crossed>> /\ NobodyStarts
  <2>1. UNCHANGED <<src, comp, crossed>>
    BY <1>2 DEF Start
  <2>2. job'[w].phase # "running" /\ \A v \in Worker \ {w} : job'[v] = job[v]
    BY <1>2, StartKeeps
  <2> QED
    BY <2>1, <2>2 DEF NobodyStarts
<1>3. ASSUME NEW w \in Worker, EnqueueChunk(w) PROVE UNCHANGED <<src, comp, crossed>> /\ NobodyStarts
  <2>1. job' = [job EXCEPT ![w] = [job[w] EXCEPT !.next = @ + 1]] /\ job[w].phase = "splitting"
    BY <1>3 DEF EnqueueChunk
  <2>2. job'[w].phase = "splitting" /\ \A v \in Worker \ {w} : job'[v] = job[v]
    BY <2>1, TypesUnfold DEF BaseInv, Jobs
  <2> QED
    BY <1>3, <2>2 DEF NobodyStarts, EnqueueChunk
<1>4. ASSUME NEW w \in Worker, Finish(w), UNCHANGED <<src, comp, crossed>>
      PROVE  UNCHANGED <<src, comp, crossed>> /\ NobodyStarts
  BY <1>4, FinishFacts DEF NobodyStarts
<1>5. ASSUME NEW w \in Worker, FinishSplit(w) PROVE UNCHANGED <<src, comp, crossed>> /\ NobodyStarts
  <2>1. UNCHANGED <<src, comp, crossed>>
    BY <1>5 DEF FinishSplit
  <2>2. CASE job' = [job EXCEPT ![w].phase = "locking"]
    <3>1. job' = [job EXCEPT ![w] = [job[w] EXCEPT !.phase = "locking"]]
      BY <2>2
    <3>2. job'[w].phase = "locking" /\ \A v \in Worker \ {w} : job'[v] = job[v]
      BY <3>1, TypesUnfold DEF BaseInv, Jobs
    <3> QED
      BY <2>1, <3>2 DEF NobodyStarts
  <2> QED
    BY <1>4, <1>5, <2>1, <2>2 DEF FinishSplit
<1>6. ASSUME NEW w \in Worker, ItemStep(w) PROVE UNCHANGED <<src, comp, crossed>> /\ NobodyStarts
  BY <1>2, <1>3, <1>4, <1>5, <1>6 DEF ItemStep, SkipLost, Release, NobodyStarts
<1>7. ASSUME NEW w \in Worker, NEW fatal \in BOOLEAN, Fail(w, fatal)
      PROVE  UNCHANGED <<src, comp, crossed>> /\ NobodyStarts
  BY <1>4, <1>7 DEF Fail
<1>8. ASSUME NEW w \in Worker, Crash(w) PROVE UNCHANGED <<src, comp, crossed>> /\ NobodyStarts
  <2>1. job'[w].phase = "idle" /\ \A v \in Worker \ {w} : job'[v] = job[v]
    BY <1>8, CrashKeeps
  <2> QED
    BY <1>8, <2>1 DEF Crash, NobodyStarts
<1>9. ASSUME \/ \E w \in Worker : Heartbeat(w)
             \/ \E t \in TaskId : Clock(t)
             \/ \E d \in dead : Replay(d)
             \/ UNCHANGED vars
      PROVE  UNCHANGED <<src, comp, crossed>> /\ NobodyStarts
  BY <1>9 DEF Heartbeat, Clock, LeaseExpires, Stall, Replay, vars, NobodyStarts
<1> QED
  BY <1>1, <1>6, <1>7, <1>8, <1>9 DEF Next

LEMMA CellsStep ==
  ASSUME BaseInv, CellsInv, [Next]_vars
  PROVE  CellsInv'
<1>1. CASE \E R \in (SUBSET Record) \ {{}}, k \in 0..Stages : Change(R, k)
  BY <1>1, ChangeKeepsCells
<1>2. CASE \E w \in Worker : TryLocks(w) \/ Commit(w)
  BY <1>2, TryLocksCells, CommitKeepsCells
<1> QED
  BY <1>1, <1>2, OthersQuiet, QuietCells

LEMMA AlwaysCellsInv == Spec => [](BaseInv /\ CellsInv)
<1>1. BaseInv /\ CellsInv /\ [Next]_vars => (BaseInv /\ CellsInv)'
  BY CellsStep, BaseStep
<1>2. Init => BaseInv /\ CellsInv
  BY BaseInit, CellsInit
<1> QED
  BY <1>1, <1>2, PTL DEF Spec

LEMMA CommitCatchesUp ==
  ASSUME BaseInv, CellsInv, NEW w \in Worker, Commit(w)
  PROVE  \E s \in Stage : Cells!CatchUp(s)
<1> PICK i \in Item : i = job[w].item
  BY AtItem
<1>1. i.stage \in Stage /\ TypeOK /\ TypeOK' /\ job[w].phase = "running"
  BY AtItem, CommitKeeps DEF BaseInv, Commit
<1>2. \A r \in Record :
        comp'[i.stage][r] \in IF CrossedUpTo(i.stage, r) THEN 0..src[r]
                              ELSE comp[i.stage][r]..In(i.stage, r)
  <2> SUFFICES ASSUME NEW r \in Record
               PROVE  /\ CrossedUpTo(i.stage, r) => comp'[i.stage][r] \in 0..src[r]
                      /\ ~CrossedUpTo(i.stage, r) =>
                           comp'[i.stage][r] \in comp[i.stage][r]..In(i.stage, r)
    OBVIOUS
  <2>1. /\ comp[i.stage][r] \in Nat /\ In(i.stage, r) \in Nat /\ comp'[i.stage][r] \in Nat
        /\ src[r] \in Nat
    BY <1>1, Numbers, NumbersNext
  <2>2. /\ comp[i.stage][r] <= src[r]
        /\ CrossedUpTo(i.stage, r) \/ comp[i.stage][r] <= In(i.stage, r)
    BY <1>1 DEF CellsInv, Behind
  <2>3. CASE r \in i.seeds
    <3>1. comp'[i.stage][r] = job[w].reads[r]
      BY <1>1, <2>3, CommitCells
    <3>2. /\ job[w].reads[r] <= src[r]
          /\ \/ CrossedUpTo(i.stage, r)
             \/ comp[i.stage][r] <= job[w].reads[r] /\ job[w].reads[r] <= In(i.stage, r)
      BY <1>1, <2>3 DEF CellsInv, ReadsBetween
    <3> QED
      BY <2>1, <3>1, <3>2
  <2>4. CASE r \notin i.seeds
    <3>1. comp'[i.stage][r] = comp[i.stage][r]
      BY <1>1, <2>4, CommitCells
    <3> QED
      BY <2>1, <2>2, <3>1
  <2> QED
    BY <2>3, <2>4
<1>3. comp' = [comp EXCEPT ![i.stage] = comp'[i.stage]] /\ UNCHANGED <<src, crossed>>
  <2> PICK f : f = [r \in Record |-> IF r \in i.seeds THEN job[w].reads[r] ELSE comp[i.stage][r]]
    OBVIOUS
  <2>1. comp' = [comp EXCEPT ![i.stage] = f] /\ UNCHANGED <<src, crossed>>
    BY DEF Commit
  <2>2. comp'[i.stage] = f
    BY <1>1, <2>1, TypesUnfold
  <2> QED
    BY <2>1, <2>2
<1>4. \A r \in Record : /\ Cells!In(i.stage, r) = In(i.stage, r)
                        /\ Cells!CrossedUpTo(i.stage, r) = CrossedUpTo(i.stage, r)
  BY DEF In, Cells!In, CrossedUpTo, Cells!CrossedUpTo
<1> QED
  BY <1>1, <1>2, <1>3, <1>4 DEF Cells!CatchUp, Cells!Stage, Stage

\* Whatever the queue, the workers and the faults do, a computed cell only moves towards
\* its input: no late commit of a worker that lost its lease takes a cell back, unless
\* two transactions with locks of different kinds met there.
THEOREM OutboxImplementsCells == Spec => ImplementsCells
<1>1. Init => Cells!Init
  BY DEF Init, Cells!Init, Cells!Stage, Stage
<1>2. BaseInv /\ CellsInv /\ [Next]_vars => [Cells!Next]_(Cells!cells)
  <2> SUFFICES ASSUME BaseInv, CellsInv, [Next]_vars
               PROVE  Cells!Next \/ UNCHANGED <<src, comp, crossed>>
    BY DEF Cells!cells
  <2>1. ASSUME NEW R \in SUBSET Record, NEW k \in 0..Stages, Change(R, k) PROVE Cells!Edit(R, k)
    <3>1. /\ src' = [r \in Record |-> IF r \in R THEN src[r] + 1 ELSE src[r]]
          /\ comp' = [s \in Stage |-> [r \in Record |->
                       IF s <= k /\ r \in R THEN src[r] + 1 ELSE comp[s][r]]]
          /\ crossed \subseteq crossed'
      BY <2>1 DEF Change
    <3> QED
      BY <3>1 DEF Cells!Edit, Cells!Stage, Stage
  <2>2. CASE \E w \in Worker : Commit(w)
    BY <2>2, CommitCatchesUp DEF Cells!Next, Cells!Stage, Stage
  <2>3. ASSUME NEW w \in Worker, TryLocks(w) PROVE Cells!Cross
    BY <2>3, TryLocksKeeps DEF TryLocks, Cells!Cross
  <2>4. CASE \E R \in (SUBSET Record) \ {{}}, k \in 0..Stages : Change(R, k)
    BY <2>1, <2>4 DEF Cells!Next
  <2> QED
    BY <2>2, <2>3, <2>4, OthersQuiet DEF Cells!Next
<1> QED
  BY <1>1, <1>2, AlwaysCellsInv, PTL DEF Spec, ImplementsCells, Cells!Spec

-----------------------------------------------------------------------------
(***************************************************************************)
(* No work is lost.  A row in processing may go while a cell it names is   *)
(* behind: its worker has handed the record to a chunk, or has read what   *)
(* is newer than the cell.  So the invariant counts a row for a record     *)
(* only while that record is not handed on, and asks of a worker inside    *)
(* its transaction that whatever came after its reads is named by a row    *)
(* that no transaction is about to delete.                                 *)
(***************************************************************************)
\* Worker w, splitting its row, has enqueued the chunk of r.
SplitOff(w, s, r) ==
  /\ job[w].phase = "splitting" /\ job[w].item.stage = s
  /\ Owns(w, job[w].item.task)
  /\ \E i \in 1..Len(job[w].chunks) : i < job[w].next /\ r \in job[w].chunks[i]

Handed(t, s, r) == \E w \in Worker : job[w].item.task = t /\ SplitOff(w, s, r)

Names(t, s, r) ==
  /\ outbox[t].status # "absent" /\ outbox[t].stage = s /\ r \in outbox[t].seeds
  /\ ~Handed(t, s, r)

Mine(w, t) == t = job[w].item.task /\ Owns(w, t)

\* No worker inside its transaction is about to delete row t.
Free(t) == \A v \in Worker : job[v].phase = "running" => ~Mine(v, t)

NothingLost ==
  \A s \in Stage, r \in Record :
    \/ comp[s][r] = In(s, r) \/ DeadLettered(s, r) \/ Slipped(s, r)
    \/ \E t \in TaskId : Names(t, s, r)

\* For a worker inside its transaction, at stage s and record r.
ReadsNamed(w, s, r) ==
  \/ job[w].reads[r] = In(s, r) \/ DeadLettered(s, r) \/ Slipped(s, r)
  \/ \E t \in TaskId : Names(t, s, r) /\ Free(t)

ReadsCovered ==
  \A w \in Worker, s \in Stage : job[w].phase = "running" /\ job[w].item.stage = s =>
    \A r \in job[w].item.seeds : ReadsNamed(w, s, r)

WorkInv == NothingLost /\ ReadsCovered

\* A row that waits names r at stage s after the step.
NamedByWaiting(s, r) == \E u \in TaskId : outbox'[u].status = "pending" /\ Names(u, s, r)'

\* What of the rows T names r at stage s names it after the step, or a waiting row or a
\* letter does, or it is marked.
Carries(T, s, r) ==
  /\ DeadLettered(s, r) => DeadLettered(s, r)' \/ NamedByWaiting(s, r)
  /\ Slipped(s, r) /\ In(s, r)' = In(s, r) => Slipped(s, r)'
  /\ \A t \in T : Names(t, s, r) =>
       Names(t, s, r)' \/ DeadLettered(s, r)' \/ NamedByWaiting(s, r) \/ Slipped(s, r)'

\* Nobody inside a transaction comes to own a row.
NobodyGains ==
  \A v \in Worker : job'[v].phase = "running" =>
    \A t \in TaskId : Owns(v, t)' => Owns(v, t)

LEMMA WorkGivesNoLostWork == WorkInv => NoLostWork
BY DEF WorkInv, NothingLost, NoLostWork, Names, Waiting

\* A pending row is nobody's, so nothing of it is handed on.
LEMMA WaitingNames ==
  ASSUME NEW u \in TaskId, NEW s, NEW r, outbox'[u].status = "pending",
         outbox'[u].stage = s, r \in outbox'[u].seeds
  PROVE  NamedByWaiting(s, r)
<1>1. ~Handed(u, s, r)'
  BY DEF Handed, SplitOff, Owns
<1> QED
  BY <1>1 DEF NamedByWaiting, Names

\* One cell whose input stays, in a step that carries what names it.
LEMMA CellStays ==
  ASSUME NothingLost, NEW s \in Stage, NEW r \in Record, Carries(TaskId, s, r),
         comp'[s][r] = comp[s][r], In(s, r)' = In(s, r)
  PROVE  \/ comp'[s][r] = In(s, r)' \/ DeadLettered(s, r)' \/ Slipped(s, r)'
         \/ \E t \in TaskId : Names(t, s, r)'
<1>1. \/ comp[s][r] = In(s, r) \/ DeadLettered(s, r) \/ Slipped(s, r)
      \/ \E t \in TaskId : Names(t, s, r)
  BY DEF NothingLost
<1> QED
  BY <1>1 DEF Carries, NamedByWaiting

\* A record that a waiting row names is covered for every worker.
LEMMA WaitingCovers ==
  ASSUME NEW w, NEW s, NEW r, NamedByWaiting(s, r)
  PROVE  ReadsNamed(w, s, r)'
<1> PICK u \in TaskId : outbox'[u].status = "pending" /\ Names(u, s, r)'
  BY DEF NamedByWaiting
<1>1. Free(u)'
  BY DEF Free, Mine, Owns
<1> QED
  BY <1>1 DEF ReadsNamed

LEMMA FreeStays ==
  ASSUME NobodyStarts, NobodyGains, NEW t \in TaskId, Free(t)
  PROVE  Free(t)'
BY DEF NobodyStarts, NobodyGains, Free, Mine

LEMMA ReadsStay ==
  ASSUME NEW w \in Worker, NEW s \in Stage, NEW r, NEW T, ReadsNamed(w, s, r), Carries(T, s, r),
         job'[w] = job[w], In(s, r)' = In(s, r),
         \A t \in TaskId : Names(t, s, r) /\ Free(t) => t \in T /\ Free(t)'
  PROVE  ReadsNamed(w, s, r)'
<1>1. CASE job[w].reads[r] = In(s, r)
  BY <1>1 DEF ReadsNamed
<1>2. CASE DeadLettered(s, r)
  BY <1>2, WaitingCovers DEF Carries, ReadsNamed
<1>3. CASE Slipped(s, r)
  BY <1>3 DEF Carries, ReadsNamed
<1>4. ASSUME NEW t \in TaskId, Names(t, s, r), Free(t)
      PROVE  ReadsNamed(w, s, r)'
  <2>1. t \in T /\ Free(t)'
    BY <1>4
  <2>2. Names(t, s, r)' \/ DeadLettered(s, r)' \/ NamedByWaiting(s, r) \/ Slipped(s, r)'
    BY <1>4, <2>1 DEF Carries
  <2> QED
    BY <2>1, <2>2, WaitingCovers DEF ReadsNamed
<1> QED
  BY <1>1, <1>2, <1>3, <1>4 DEF ReadsNamed

LEMMA QuietWork ==
  ASSUME TypeOK, TypeOK', WorkInv, UNCHANGED <<src, comp>>, NobodyStarts, NobodyGains,
         \A s \in Stage, r \in Record : Carries(TaskId, s, r)
  PROVE  WorkInv'
<1>1. \A s, r : In(s, r)' = In(s, r)
  BY DEF In
<1>2. NothingLost'
  <2> SUFFICES ASSUME NEW s \in Stage, NEW r \in Record
               PROVE  \/ comp'[s][r] = In(s, r)' \/ DeadLettered(s, r)' \/ Slipped(s, r)'
                      \/ \E t \in TaskId : Names(t, s, r)'
    BY DEF NothingLost
  <2> QED
    BY <1>1, CellStays DEF WorkInv
<1>3. ReadsCovered'
  <2> SUFFICES ASSUME NEW w \in Worker, NEW s \in Stage, job'[w].phase = "running",
                      job'[w].item.stage = s, NEW r \in job'[w].item.seeds
               PROVE  ReadsNamed(w, s, r)'
    BY DEF ReadsCovered
  <2>1. job'[w] = job[w]
    BY DEF NobodyStarts
  <2>2. r \in Record
    BY <2>1 DEF TypeOK, Item
  <2>3. ReadsNamed(w, s, r)
    BY <2>1 DEF WorkInv, ReadsCovered
  <2> QED
    BY <1>1, <2>1, <2>2, <2>3, FreeStays, ReadsStay
<1> QED
  BY <1>2, <1>3 DEF WorkInv

\* Rows that nobody splits off further go on naming what they name.
NoNewChunks ==
  \A v \in Worker : job'[v].phase = "splitting" =>
    /\ job'[v] = job[v] \/ job'[v].next = 1
    /\ \A t \in TaskId : Owns(v, t)' => Owns(v, t)

LEMMA HandedStays ==
  ASSUME TypeOK, TypeOK', NoNewChunks, NEW t, NEW s, NEW r, Handed(t, s, r)'
  PROVE  Handed(t, s, r)
<1>1. PICK w \in Worker : (job[w].item.task = t /\ SplitOff(w, s, r))'
  BY DEF Handed
<1>2. PICK i \in 1..Len(job'[w].chunks) : i < job'[w].next /\ r \in job'[w].chunks[i]
  BY <1>1 DEF SplitOff
<1>3. job'[w].phase = "splitting" /\ job'[w].item.task = t /\ Owns(w, t)'
  BY <1>1 DEF SplitOff, Owns
<1>4. job'[w] = job[w]
  <2>1. job'[w].next # 1
    BY <1>2
  <2> QED
    BY <1>3, <2>1 DEF NoNewChunks
<1>5. t \in TaskId /\ Owns(w, t)
  <2>1. t \in TaskId
    BY <1>3 DEF TypeOK, Item
  <2> QED
    BY <1>3, <2>1 DEF NoNewChunks
<1> QED
  BY <1>1, <1>2, <1>4, <1>5 DEF Handed, SplitOff

\* Row t of next is still there and names what it named, as far as merges keep it.
Stays(next, t) ==
  outbox[t].status # "absent" =>
    /\ next[t].status # "absent" /\ next[t].stage = outbox[t].stage
    /\ Keeps(outbox[t]) => outbox[t].seeds \subseteq next[t].seeds

\* What a merge drops is remembered.
LEMMA DroppedSlips ==
  ASSUME Remember, NEW t \in TaskId, Stays(outbox', t), outbox[t].status # "absent",
         NEW r \in outbox[t].seeds
  PROVE  r \in outbox'[t].seeds \/ Slipped(outbox[t].stage, r)'
<1> SUFFICES ASSUME r \notin outbox'[t].seeds PROVE Slipped(outbox[t].stage, r)'
  OBVIOUS
<1> PICK s : s = outbox[t].stage
  OBVIOUS
<1>1. /\ s \in SeedStages /\ outbox[t].spilled
      /\ outbox'[t].status # "absent" /\ outbox'[t].stage = s
  BY DEF Stays, Keeps
<1>2. r \in Dropped(s)
  BY <1>1 DEF Dropped
<1>3. <<s, r, In(s, r)'>> \in forgotten'
  BY <1>1, <1>2 DEF Remember
<1>4. Slipped(s, r)'
  BY <1>3 DEF Slipped
<1> QED
  BY <1>1, <1>4

\* A step that drops no seed has nothing to remember.
LEMMA NothingDropped ==
  ASSUME forgotten' = forgotten,
         \A t \in TaskId : outbox[t].status # "absent" /\ outbox'[t].status # "absent" =>
           outbox[t].seeds \subseteq outbox'[t].seeds
  PROVE  Remember
<1>1. \A s \in SeedStages : Dropped(s) = {}
  BY DEF Dropped
<1> QED
  BY <1>1 DEF Remember

LEMMA NamesStay ==
  ASSUME TypeOK, TypeOK', NoNewChunks, Remember, NEW t \in TaskId, NEW s, NEW r,
         Names(t, s, r), Stays(outbox', t)
  PROVE  Names(t, s, r)' \/ Slipped(s, r)'
<1>1. outbox[t].status # "absent" /\ outbox[t].stage = s /\ r \in outbox[t].seeds
  BY DEF Names
<1>2. CASE r \in outbox'[t].seeds
  BY <1>1, <1>2, HandedStays DEF Names, Stays
<1>3. CASE r \notin outbox'[t].seeds
  <2>1. Slipped(outbox[t].stage, r)'
    BY <1>1, <1>3, DroppedSlips
  <2>2. outbox'[t].stage = s
    BY <1>1 DEF Stays
  <2> QED
    BY <2>1, <2>2
<1> QED
  BY <1>2, <1>3

\* Where no chunk is enqueued and the rows T stay, or others take over what they name.
LEMMA RowsCarry ==
  ASSUME TypeOK, TypeOK', NoNewChunks, Remember, dead \subseteq dead', crossed \subseteq crossed',
         NEW T \in SUBSET TaskId, NEW s, NEW r,
         \A t \in T : \/ Stays(outbox', t)
                      \/ Names(t, s, r) => DeadLettered(s, r)' \/ NamedByWaiting(s, r)
  PROVE  Carries(T, s, r)
<1>1. ASSUME NEW t \in T, Names(t, s, r)
      PROVE  Names(t, s, r)' \/ DeadLettered(s, r)' \/ NamedByWaiting(s, r) \/ Slipped(s, r)'
  BY <1>1, NamesStay
<1>2. DeadLettered(s, r) => DeadLettered(s, r)'
  BY DEF DeadLettered
<1>3. Slipped(s, r) /\ In(s, r)' = In(s, r) => Slipped(s, r)'
  BY DEF Slipped, Remember
<1> QED
  BY <1>1, <1>2, <1>3 DEF Carries

LEMMA EnqueuedStays ==
  ASSUME NEW next, NEW y, NEW s, NEW S, Enqueued(outbox, next, y, s, S)
  PROVE  \A t \in TaskId : Stays(next, t)
BY DEF Enqueued, Stays

LEMMA NextStageStays ==
  ASSUME NEW next, NEW s, NEW S, NextStage(next, s, S)
  PROVE  \A t \in TaskId : Stays(next, t)
<1>1. CASE next = outbox
  BY <1>1 DEF Stays
<1> QED
  BY <1>1, EnqueuedStays DEF NextStage

LEMMA SettledGainsNothing ==
  ASSUME \A t \in TaskId : Settled(t)
  PROVE  NobodyGains /\ \A v \in Worker, t \in TaskId : Owns(v, t)' => Owns(v, t)
BY DEF Settled, Owns, NobodyGains

LEMMA ToPendingStays ==
  ASSUME TypeOK, NEW u \in TaskId, NEW n \in 0..MaxAttempts,
         outbox' = [outbox EXCEPT ![u] = ToPending(@, n)]
  PROVE  \A t \in TaskId : Stays(outbox', t) /\ outbox'[t].seeds = outbox[t].seeds
<1> PICK row : row = ToPending(outbox[u], n)
  OBVIOUS
<1>1. row.seeds = outbox[u].seeds /\ row.stage = outbox[u].stage /\ row.status = "pending"
  BY ToPendingFacts, TypesUnfold
<1>2. outbox' = [outbox EXCEPT ![u] = row]
  OBVIOUS
<1> QED
  BY <1>1, <1>2, TypesUnfold DEF Stays

LEMMA DeletedStays ==
  ASSUME TypeOK, NEW u \in TaskId, outbox' = Delete(outbox, u)
  PROVE  /\ \A t \in TaskId \ {u} : Stays(outbox', t)
         /\ \A t \in TaskId : outbox'[t].status # "absent" => outbox'[t] = outbox[t]
<1>1. /\ outbox'[u].status = "absent"
      /\ \A t \in TaskId \ {u} : outbox'[t] = outbox[t]
  BY DeleteFacts, TypesUnfold
<1> QED
  BY <1>1 DEF Stays

-----------------------------------------------------------------------------
(***************************************************************************)
(* The steps that leave cells and transactions alone.                      *)
(***************************************************************************)
Carried == NobodyGains /\ \A s \in Stage, r \in Record : Carries(TaskId, s, r)

LEMMA ClaimCarries ==
  ASSUME BaseInv, NEW w \in Worker, Claim(w)
  PROVE  Carried
<1> PICK T \in SUBSET TaskId :
      /\ hold[w] = {} /\ TakeRows(w, T) /\ faults' \in 0..MaxFaults
      /\ \A t \in T : outbox[t].status # "absent"
  BY ClaimKeeps
<1>1. /\ BaseInv' /\ job[w].phase = "idle" /\ UNCHANGED <<job, dead, crossed, forgotten>>
      /\ \A t \in TaskId \ T : outbox'[t] = outbox[t]
      /\ \A t \in T : outbox'[t].status = "processing" /\ outbox'[t].owner = w
      /\ \A t \in TaskId : outbox'[t].stage = outbox[t].stage /\ outbox'[t].seeds = outbox[t].seeds
  BY TakeRowsKeeps DEF TakeRows
<1>2. \A v \in Worker \ {w}, t \in TaskId : Owns(v, t)' => Owns(v, t)
  BY <1>1 DEF Owns
<1>3. NobodyGains /\ NoNewChunks
  BY <1>1, <1>2 DEF NobodyGains, NoNewChunks
<1>4. \A t \in TaskId : Stays(outbox', t)
  BY <1>1 DEF Stays
<1>5. TypeOK /\ TypeOK' /\ Remember
  BY <1>1, NothingDropped DEF BaseInv
<1> QED
  BY <1>1, <1>3, <1>4, <1>5, RowsCarry DEF Carried

LEMMA StartCarries ==
  ASSUME BaseInv, NEW w \in Worker, NEW i \in hold[w], Start(w, i)
  PROVE  Carried
<1>1. /\ BaseInv' /\ \A t \in TaskId : SameRow(t) /\ Settled(t)
      /\ \A v \in Worker \ {w} : job'[v] = job[v]
      /\ job'[w].next = 1 /\ UNCHANGED <<dead, crossed, forgotten>>
  BY StartKeeps DEF Start
<1>2. NobodyGains /\ NoNewChunks
  BY <1>1, SettledGainsNothing DEF NoNewChunks
<1>3. \A t \in TaskId : Stays(outbox', t) /\ outbox'[t].seeds = outbox[t].seeds
  BY <1>1 DEF Stays, SameRow
<1>4. TypeOK /\ TypeOK' /\ Remember
  BY <1>1, <1>3, NothingDropped DEF BaseInv
<1> QED
  BY <1>1, <1>2, <1>3, <1>4, RowsCarry DEF Carried

\* The lease steps, and those that leave the rows alone.
LEMMA SameRowsCarry ==
  ASSUME TypeOK, TypeOK', \A t \in TaskId : SameRow(t) /\ Settled(t), dead' = dead,
         forgotten' = forgotten, crossed \subseteq crossed',
         \A v \in Worker : job'[v] = job[v] \/ job'[v].phase # "splitting"
  PROVE  Carried
<1>1. NobodyGains /\ NoNewChunks
  BY SettledGainsNothing DEF NoNewChunks
<1>2. \A t \in TaskId : Stays(outbox', t) /\ outbox'[t].seeds = outbox[t].seeds
  BY DEF Stays, SameRow
<1>3. Remember
  BY <1>2, NothingDropped
<1> QED
  BY <1>1, <1>2, <1>3, RowsCarry DEF Carried

LEMMA EnqueueChunkCarries ==
  ASSUME BaseInv, NEW w \in Worker, EnqueueChunk(w)
  PROVE  Carried
<1> PICK j \in Jobs : j = job[w]
  BY AtItem
<1>1. /\ BaseInv' /\ \A t \in TaskId : Settled(t)
      /\ job' = [job EXCEPT ![w] = [j EXCEPT !.next = @ + 1]]
      /\ dead' = dead /\ crossed' = crossed /\ j.phase = "splitting" /\ Remember
  BY EnqueueChunkKeeps DEF EnqueueChunk
<1> PICK y \in TaskId : Enqueued(outbox, outbox', y, j.item.stage, j.chunks[j.next])
  BY EnqueueChunkKeeps
<1>2. /\ job'[w].item = j.item /\ job'[w].chunks = j.chunks
      /\ job'[w].next = j.next + 1 /\ j.next \in Nat
      /\ \A v \in Worker \ {w} : job'[v] = job[v]
  BY <1>1, TypesUnfold DEF BaseInv, Jobs
<1>3. NobodyGains /\ \A v \in Worker, t \in TaskId : Owns(v, t)' => Owns(v, t)
  BY <1>1, SettledGainsNothing
<1>4. ASSUME NEW s \in Stage, NEW r \in Record, NEW t \in TaskId, Names(t, s, r),
             r \in outbox'[t].seeds, ~Names(t, s, r)'
      PROVE  NamedByWaiting(s, r)
  <2>1. Handed(t, s, r)'
    BY <1>4, EnqueuedStays DEF Names, Stays
  <2> PICK v \in Worker : (job[v].item.task = t /\ SplitOff(v, s, r))'
    BY <2>1 DEF Handed
  <2>2. /\ job'[v].item.task = t /\ job'[v].phase = "splitting" /\ job'[v].item.stage = s
        /\ Owns(v, t)
        /\ \E i \in 1..Len(job'[v].chunks) : i < job'[v].next /\ r \in job'[v].chunks[i]
    BY <1>3 DEF SplitOff, Owns
  <2>3. ~Handed(t, s, r)
    BY <1>4 DEF Names
  <2>4. v = w
    BY <1>2, <2>2, <2>3 DEF Handed, SplitOff
  <2> PICK i \in 1..Len(j.chunks) : i < j.next + 1 /\ r \in j.chunks[i]
    BY <1>2, <2>2, <2>4
  <2>5. j.item.task = t /\ j.item.stage = s
    BY <1>2, <2>2, <2>4
  <2>6. ~(i < j.next)
    BY <1>1, <2>2, <2>3, <2>4, <2>5 DEF Handed, SplitOff
  <2>7. i = j.next
    BY <1>2, <2>6
  <2>8. outbox'[y].status = "pending" /\ outbox'[y].stage = s /\ r \in outbox'[y].seeds
    BY <2>5, <2>7 DEF Enqueued
  <2> QED
    BY <2>8, WaitingNames
<1>5. ASSUME NEW s \in Stage, NEW r \in Record, NEW t \in TaskId, Names(t, s, r)
      PROVE  r \in outbox'[t].seeds \/ Slipped(s, r)'
  <2>1. /\ outbox[t].status # "absent" /\ outbox[t].stage = s /\ r \in outbox[t].seeds
        /\ Stays(outbox', t)
    BY <1>5, EnqueuedStays DEF Names
  <2>2. r \in outbox'[t].seeds \/ Slipped(outbox[t].stage, r)'
    BY <1>1, <2>1, DroppedSlips
  <2>3. outbox'[t].stage = s
    BY <2>1 DEF Stays
  <2> QED
    BY <2>2, <2>3
<1>6. \A s, r : DeadLettered(s, r)' = DeadLettered(s, r)
  BY <1>1 DEF DeadLettered
<1>7. \A s, r : Slipped(s, r) /\ In(s, r)' = In(s, r) => Slipped(s, r)'
  BY <1>1 DEF Slipped, Remember
<1> QED
  BY <1>3, <1>4, <1>5, <1>6, <1>7 DEF Carried, Carries

\* When the row is deleted all its records are in chunks.
LEMMA FinishSplitCarries ==
  ASSUME BaseInv, NEW w \in Worker, FinishSplit(w)
  PROVE  Carried
<1> PICK i \in Item : i = job[w].item
  BY AtItem
<1>1. /\ BaseInv' /\ \A t \in TaskId : Settled(t)
      /\ i.task \in TaskId /\ job[w].phase = "splitting"
      /\ UNCHANGED <<dead, crossed, forgotten>> /\ TypeOK /\ TypeOK'
  BY FinishSplitKeeps, AtItem DEF FinishSplit, BaseInv
<1>2. CASE ~Owns(w, i.task)
  <2>1. outbox' = outbox /\ job' = [job EXCEPT ![w].phase = "locking"]
    BY <1>2 DEF FinishSplit
  <2>2. \A v \in Worker : job'[v] = job[v] \/ job'[v].phase # "splitting"
    <3>1. job' = [job EXCEPT ![w] = [job[w] EXCEPT !.phase = "locking"]]
      BY <2>1
    <3> QED
      BY <1>1, <3>1, TypesUnfold DEF Jobs
  <2>3. \A t \in TaskId : SameRow(t)
    BY <2>1 DEF SameRow
  <2> QED
    BY <1>1, <2>2, <2>3, SameRowsCarry
<1>3. CASE Owns(w, i.task)
  <2>1. outbox' = Delete(outbox, i.task) /\ Finish(w)
    BY <1>3 DEF FinishSplit
  <2>2. (\A t \in TaskId \ {i.task} : Stays(outbox', t)) /\ Remember
    BY <1>1, <2>1, DeletedStays, NothingDropped
  <2>3. NobodyGains /\ NoNewChunks
    BY <1>1, <2>1, SettledGainsNothing, FinishFacts DEF NoNewChunks
  <2>4. ASSUME NEW s \in Stage, NEW r \in Record PROVE ~Names(i.task, s, r)
    <3> SUFFICES ASSUME Names(i.task, s, r) PROVE FALSE
      OBVIOUS
    <3>1. i = ItemOf(i.task)
      BY <1>1, <1>3, AtItem
    <3>2. i.stage = s /\ r \in i.seeds
      BY <3>1 DEF Names, ItemOf
    <3>3. i.seeds = UNION {job[w].chunks[k] : k \in 1..Len(job[w].chunks)}
      BY <1>1 DEF BaseInv, ChunksOfItem
    <3> PICK k \in 1..Len(job[w].chunks) : r \in job[w].chunks[k]
      BY <3>2, <3>3
    <3>4. job[w].next > Len(job[w].chunks) /\ job[w].next \in Nat /\ Len(job[w].chunks) \in Nat
      BY AtItem DEF FinishSplit, Jobs
    <3>5. k < job[w].next
      BY <3>4
    <3> QED
      BY <1>1, <1>3, <3>2, <3>5 DEF Names, Handed, SplitOff
  <2> QED
    BY <1>1, <2>2, <2>3, <2>4, RowsCarry DEF Carried
<1> QED
  BY <1>2, <1>3

\* A worker gives its item up, and the rows stay but perhaps its own.
LEMMA FinishCarries ==
  ASSUME BaseInv, TypeOK', NEW w \in Worker, Finish(w), \A t \in TaskId : Settled(t),
         dead \subseteq dead', crossed' = crossed, Remember,
         \A t \in TaskId \ {job[w].item.task} : Stays(outbox', t),
         \/ Stays(outbox', job[w].item.task)
         \/ \A s \in Stage, r \in Record : Names(job[w].item.task, s, r) =>
              DeadLettered(s, r)' \/ NamedByWaiting(s, r)
  PROVE  Carried
<1>1. NobodyGains /\ NoNewChunks
  BY SettledGainsNothing, FinishFacts DEF NoNewChunks
<1>2. TypeOK
  BY DEF BaseInv
<1>3. ASSUME NEW s \in Stage, NEW r \in Record
      PROVE  \A t \in TaskId : \/ Stays(outbox', t)
                               \/ Names(t, s, r) => DeadLettered(s, r)' \/ NamedByWaiting(s, r)
  OBVIOUS
<1> QED
  BY <1>1, <1>2, <1>3, RowsCarry DEF Carried

LEMMA ReleaseCarries ==
  ASSUME BaseInv, NEW w \in Worker, Release(w)
  PROVE  Carried
<1> PICK i \in Item : i = job[w].item
  BY AtItem
<1>1. /\ BaseInv' /\ \A t \in TaskId : Settled(t)
      /\ i.task \in TaskId /\ job[w].phase # "idle" /\ Finish(w)
      /\ UNCHANGED <<dead, crossed>> /\ Remember
      /\ TypeOK /\ TypeOK'
  BY ReleaseKeeps, AtItem DEF Release, BaseInv
<1>2. CASE outbox' = outbox
  <2>1. \A t \in TaskId : Stays(outbox', t)
    BY <1>2 DEF Stays
  <2> QED
    BY <1>1, <2>1, FinishCarries
<1>3. ASSUME NEW next \in [TaskId -> Row], NEW y \in TaskId, Owns(w, i.task),
             Enqueued(outbox, next, y, i.stage, i.seeds), outbox' = Delete(next, i.task)
      PROVE  Carried
  <2>1. y # i.task
    BY <1>3 DEF Owns, Enqueued
  <2>2. outbox'[y] = next[y] /\ \A t \in TaskId \ {i.task} : outbox'[t] = next[t]
    BY <1>1, <1>3, <2>1, DeleteFacts
  <2>3. \A t \in TaskId \ {i.task} : Stays(outbox', t)
    BY <1>3, <2>2, EnqueuedStays DEF Stays
  <2>4. ASSUME NEW s \in Stage, NEW r \in Record, Names(i.task, s, r) PROVE NamedByWaiting(s, r)
    <3>1. i = ItemOf(i.task)
      BY <1>1, <1>3, AtItem
    <3>2. i.stage = s /\ r \in i.seeds
      BY <2>4, <3>1 DEF Names, ItemOf
    <3>3. outbox'[y].status = "pending" /\ outbox'[y].stage = s /\ r \in outbox'[y].seeds
      BY <1>3, <2>2, <3>2 DEF Enqueued
    <3> QED
      BY <3>3, WaitingNames
  <2> QED
    BY <1>1, <2>3, <2>4, FinishCarries
<1>4. CASE outbox' = [outbox EXCEPT ![i.task] = ToPending(@, @.attempts)]
  <2> PICK n : n = outbox[i.task].attempts
    OBVIOUS
  <2>1. n \in 0..MaxAttempts
    BY <1>1, TypesUnfold DEF Row
  <2>2. outbox' = [outbox EXCEPT ![i.task] = ToPending(@, n)]
    BY <1>4
  <2>3. \A t \in TaskId : Stays(outbox', t)
    BY <1>1, <2>1, <2>2, ToPendingStays
  <2> QED
    BY <1>1, <2>3, FinishCarries
<1> QED
  BY <1>2, <1>3, <1>4, ReleaseKeeps

LEMMA FailCarries ==
  ASSUME BaseInv, NEW w \in Worker, NEW fatal \in BOOLEAN, Fail(w, fatal)
  PROVE  Carried
<1> PICK i \in Item : i = job[w].item
  BY AtItem
<1>1. /\ BaseInv' /\ \A t \in TaskId : Settled(t)
      /\ i.task \in TaskId /\ job[w].phase # "idle" /\ Finish(w)
      /\ UNCHANGED <<crossed, forgotten>>
      /\ TypeOK /\ TypeOK'
  BY FailKeeps, AtItem DEF Fail, BaseInv
<1>2. CASE outbox' = outbox /\ dead' = dead
  <2>1. (\A t \in TaskId : Stays(outbox', t)) /\ Remember
    BY <1>1, <1>2, NothingDropped DEF Stays
  <2> QED
    BY <1>1, <1>2, <2>1, FinishCarries
<1>3. CASE /\ Owns(w, i.task)
           /\ outbox' = Delete(outbox, i.task)
           /\ dead' = dead \cup {LetterOf(i)}
  <2>1. (\A t \in TaskId \ {i.task} : Stays(outbox', t)) /\ Remember
    BY <1>1, <1>3, DeletedStays, NothingDropped
  <2>2. ASSUME NEW s \in Stage, NEW r \in Record, Names(i.task, s, r) PROVE DeadLettered(s, r)'
    <3>1. i = ItemOf(i.task)
      BY <1>1, <1>3, AtItem
    <3>2. i.stage = s /\ r \in i.seeds
      BY <2>2, <3>1 DEF Names, ItemOf
    <3>3. LetterOf(i) \in dead' /\ LetterOf(i).stage = s /\ r \in LetterOf(i).seeds
      BY <1>3, <3>2 DEF LetterOf
    <3> QED
      BY <3>3 DEF DeadLettered
  <2> QED
    BY <1>1, <1>3, <2>1, <2>2, FinishCarries
<1>4. ASSUME dead' = dead, NEW n \in 0..MaxAttempts,
             outbox' = [outbox EXCEPT ![i.task] = ToPending(@, n)]
      PROVE  Carried
  <2>1. \A t \in TaskId : Stays(outbox', t) /\ outbox'[t].seeds = outbox[t].seeds
    BY <1>1, <1>4, ToPendingStays
  <2>2. Remember
    BY <1>1, <2>1, NothingDropped
  <2> QED
    BY <1>1, <1>4, <2>1, <2>2, FinishCarries
<1> QED
  BY <1>2, <1>3, <1>4, FailKeeps

\* A letter goes only as its row comes back.
LEMMA ReplayCarries ==
  ASSUME BaseInv, NEW d \in dead, Replay(d)
  PROVE  Carried
<1> PICK y \in TaskId : Enqueued(outbox, outbox', y, d.stage, d.seeds)
  BY ReplayKeeps
<1>1. /\ BaseInv' /\ \A t \in TaskId : Settled(t)
      /\ job' = job /\ dead' = dead \ {d} /\ UNCHANGED <<crossed, forgotten, src, comp>>
      /\ \A t \in TaskId : outbox[t].status # "absent" => outbox'[t] = outbox[t]
      /\ TypeOK /\ TypeOK'
  BY ReplayKeeps DEF Replay, BaseInv
<1>2. NobodyGains /\ NoNewChunks /\ Remember
  BY <1>1, SettledGainsNothing, NothingDropped DEF NoNewChunks
<1>3. ASSUME NEW t \in TaskId, NEW s \in Stage, NEW r \in Record, Names(t, s, r)
      PROVE  Names(t, s, r)' \/ Slipped(s, r)'
  BY <1>1, <1>2, <1>3, NamesStay, EnqueuedStays
<1>4. ASSUME NEW s \in Stage, NEW r \in Record, DeadLettered(s, r), ~DeadLettered(s, r)'
      PROVE  NamedByWaiting(s, r)
  <2>1. d.stage = s /\ r \in d.seeds
    BY <1>1, <1>4 DEF DeadLettered
  <2>2. outbox'[y].status = "pending" /\ outbox'[y].stage = s /\ r \in outbox'[y].seeds
    BY <2>1 DEF Enqueued
  <2> QED
    BY <2>2, WaitingNames
<1>5. \A s, r : Slipped(s, r) /\ In(s, r)' = In(s, r) => Slipped(s, r)'
  BY <1>1 DEF Slipped
<1> QED
  BY <1>2, <1>3, <1>4, <1>5 DEF Carried, Carries

LEMMA QuietCarries ==
  ASSUME BaseInv, [Next]_vars,
         ~\E R \in (SUBSET Record) \ {{}}, k \in 0..Stages : Change(R, k),
         ~\E w \in Worker : TryLocks(w) \/ Commit(w)
  PROVE  Carried
<1>0. TypeOK /\ BaseInv' /\ TypeOK'
  BY BaseStep DEF BaseInv
<1>1. ASSUME NEW w \in Worker, NEW i \in hold[w], SkipLost(w, i) PROVE Carried
  <2>1. \A t \in TaskId : SameRow(t) /\ Settled(t)
    BY <1>1, SkipLostKeeps DEF SkipLost, SameRow
  <2> QED
    BY <1>0, <1>1, <2>1, SameRowsCarry DEF SkipLost
<1>2. ASSUME NEW w \in Worker, Crash(w) PROVE Carried
  <2>1. \A t \in TaskId : SameRow(t) /\ Settled(t)
    BY <1>2, CrashKeeps DEF Crash, SameRow
  <2>2. \A v \in Worker : job'[v] = job[v] \/ job'[v].phase # "splitting"
    BY <1>2, CrashKeeps
  <2> QED
    BY <1>0, <1>2, <2>1, <2>2, SameRowsCarry DEF Crash
<1>3. CASE (\E w \in Worker : Heartbeat(w)) \/ (\E t \in TaskId : Clock(t))
  BY <1>0, <1>3, LeaseStepsKeep, SameRowsCarry
<1>4. CASE UNCHANGED vars
  BY <1>0, <1>4, StutterKeeps, SameRowsCarry DEF vars
<1>5. ASSUME NEW w \in Worker, ItemStep(w), ~TryLocks(w), ~Commit(w) PROVE Carried
  BY <1>1, <1>5, StartCarries, EnqueueChunkCarries, FinishSplitCarries, ReleaseCarries DEF ItemStep
<1> QED
  BY <1>2, <1>3, <1>4, <1>5, ClaimCarries, FailCarries, ReplayCarries DEF Next

-----------------------------------------------------------------------------
(***************************************************************************)
(* The steps at the cells.                                                 *)
(***************************************************************************)
\* Whoever enters a transaction is about to delete its row.  If the row named what
\* another transaction there has not read, the two have crossed.
LEMMA TryLocksWork ==
  ASSUME BaseInv, WorkInv, NEW w \in Worker, TryLocks(w)
  PROVE  WorkInv'
<1> PICK i \in Item : i = job[w].item
  BY AtItem
<1>1. /\ TypeOK /\ TypeOK' /\ UNCHANGED <<src, comp, dead, forgotten>> /\ crossed \subseteq crossed'
      /\ \A t \in TaskId : SameRow(t) /\ Settled(t)
      /\ \A v \in Worker \ {w} : job'[v] = job[v]
      /\ job'[w].item = i /\ job[w].phase = "locking" /\ i.seeds \in SUBSET Record
      /\ \/ job'[w].phase = "blocked"
         \/ /\ job'[w].phase = "running" /\ LocksFree(i.stage, i.seeds)
            /\ \A r \in Crossing(i.stage, i.seeds) : <<i.stage, r, In(i.stage, r)>> \in crossed'
            /\ \A r \in i.seeds : job'[w].reads[r] = In(i.stage, r)
  BY TryLocksKeeps, AtItem DEF BaseInv, TryLocks, SameRow
<1>2. Carried
  BY <1>1, SameRowsCarry
<1>3. \A s, r : In(s, r)' = In(s, r)
  BY <1>1 DEF In
<1>4. NothingLost'
  <2> SUFFICES ASSUME NEW s \in Stage, NEW r \in Record
               PROVE  \/ comp'[s][r] = In(s, r)' \/ DeadLettered(s, r)' \/ Slipped(s, r)'
                      \/ \E t \in TaskId : Names(t, s, r)'
    BY DEF NothingLost
  <2> QED
    BY <1>1, <1>2, <1>3, CellStays DEF WorkInv, Carried
<1>5. ASSUME NEW v \in Worker \ {w}, NEW s \in Stage, job[v].phase = "running",
             job[v].item.stage = s, NEW r \in job[v].item.seeds, ~Slipped(s, r)',
             NEW t \in TaskId, Names(t, s, r), Free(t)
      PROVE  Free(t)'
  <2> SUFFICES ASSUME NEW u \in Worker, job'[u].phase = "running", Mine(u, t)' PROVE FALSE
    BY DEF Free
  <2>1. t = job'[u].item.task /\ Owns(u, t)
    BY <1>1, SettledGainsNothing DEF Mine
  <2>2. CASE u # w
    BY <1>1, <1>5, <2>1, <2>2 DEF Free, Mine
  <2>3. CASE u = w
    <3>1. t = i.task /\ Owns(w, t)
      BY <1>1, <2>1, <2>3
    <3>2. i = ItemOf(t)
      BY <1>1, <3>1, AtItem
    <3>3. i.stage = s /\ r \in i.seeds
      BY <1>5, <3>2 DEF Names, ItemOf
    <3>4. v \in Running(i.stage) /\ r \in i.seeds \cap job[v].item.seeds
      BY <1>5, <3>3 DEF Running
    <3>5. LocksFree(i.stage, i.seeds)
      BY <1>1, <2>3
    <3>6. r \in Crossing(i.stage, i.seeds)
      BY <1>1, <3>4, <3>5, FreeOrCrossing
    <3>7. <<i.stage, r, In(i.stage, r)>> \in crossed'
      BY <1>1, <2>3, <3>6
    <3>8. <<s, r, In(s, r)'>> \in crossed'
      BY <1>3, <3>3, <3>7
    <3> QED
      BY <1>5, <3>8 DEF Slipped
  <2> QED
    BY <2>2, <2>3
<1>6. ASSUME NEW v \in Worker, NEW s \in Stage, job'[v].phase = "running",
             job'[v].item.stage = s, NEW r \in job'[v].item.seeds
      PROVE  ReadsNamed(v, s, r)'
  <2>1. r \in Record
    BY <1>1, <1>6 DEF TypeOK, Item
  <2>2. CASE v = w
    <3>1. job'[w].reads[r] = In(s, r)
      BY <1>1, <1>6, <2>2
    <3> QED
      BY <1>3, <2>2, <3>1 DEF ReadsNamed
  <2>3. CASE v # w /\ Slipped(s, r)'
    BY <2>3 DEF ReadsNamed
  <2>4. CASE v # w /\ ~Slipped(s, r)'
    <3>1. job'[v] = job[v] /\ Carries(TaskId, s, r)
      BY <1>1, <1>2, <2>1, <2>4 DEF Carried
    <3>2. ReadsNamed(v, s, r)
      BY <1>6, <3>1 DEF WorkInv, ReadsCovered
    <3>3. \A t \in TaskId : Names(t, s, r) /\ Free(t) => Free(t)'
      BY <1>5, <1>6, <2>4, <3>1
    <3> QED
      BY <1>3, <3>1, <3>2, <3>3, ReadsStay
  <2> QED
    BY <2>2, <2>3, <2>4
<1> QED
  BY <1>4, <1>6 DEF WorkInv, ReadsCovered

LEMMA ChangeWork ==
  ASSUME BaseInv, CellsInv, WorkInv, NEW R \in SUBSET Record, NEW k \in 0..Stages, Change(R, k)
  PROVE  WorkInv'
<1>1. /\ TypeOK /\ TypeOK' /\ job' = job /\ dead' = dead
      /\ crossed \subseteq crossed' /\ Remember
      /\ \A t \in TaskId : Settled(t)
      /\ NextStage(outbox', k, R)
  BY ChangeKeeps DEF BaseInv, Change
<1>2. /\ NobodyStarts /\ NobodyGains
      /\ NoNewChunks /\ \A v \in Worker, t \in TaskId : Owns(v, t)' => Owns(v, t)
  BY <1>1, SettledGainsNothing DEF NoNewChunks, NobodyStarts
<1>3. \A t \in TaskId : Stays(outbox', t)
  BY <1>1, NextStageStays
<1>4. \A s, r : Carries(TaskId, s, r)
  BY <1>1, <1>2, <1>3, RowsCarry
<1>5. ASSUME NEW s \in Stage, s = k + 1, NEW r \in R PROVE NamedByWaiting(s, r)
  <2>1. k # Stages
    BY <1>5, OutboxAssumption DEF Stage, OutboxAssumption
  <2> PICK y \in TaskId : Enqueued(outbox, outbox', y, s, R)
    BY <1>1, <1>5, <2>1 DEF NextStage
  <2>2. outbox'[y].status = "pending" /\ outbox'[y].stage = s /\ r \in outbox'[y].seeds
    BY DEF Enqueued
  <2> QED
    BY <2>2, WaitingNames
<1>6. ASSUME NEW s \in Stage PROVE s <= k + 1 <=> s <= k \/ s = k + 1
  BY OutboxAssumption DEF Stage, OutboxAssumption
<1>7. NothingLost'
  <2> SUFFICES ASSUME NEW s \in Stage, NEW r \in Record
               PROVE  \/ comp'[s][r] = In(s, r)' \/ DeadLettered(s, r)' \/ Slipped(s, r)'
                      \/ \E t \in TaskId : Names(t, s, r)'
    BY DEF NothingLost
  <2>1. CASE s <= k /\ r \in R
    BY <2>1, ChangeCells
  <2>2. CASE s = k + 1 /\ r \in R
    BY <1>5, <2>2 DEF NamedByWaiting
  <2>3. CASE ~(s <= k + 1 /\ r \in R)
    <3>1. comp'[s][r] = comp[s][r] /\ In(s, r)' = In(s, r)
      BY <1>6, <2>3, ChangeCells
    <3> QED
      BY <1>4, <3>1, CellStays DEF WorkInv
  <2> QED
    BY <1>6, <2>1, <2>2, <2>3
<1>8. ASSUME NEW w \in Worker, NEW s \in Stage, job[w].phase = "running",
             job[w].item.stage = s, NEW r \in job[w].item.seeds
      PROVE  ReadsNamed(w, s, r)'
  <2>1. r \in Record /\ ReadsNamed(w, s, r)
    BY <1>1, <1>8, AtItem DEF WorkInv, ReadsCovered
  <2>2. CASE s <= k /\ r \in R
    <3>1. <<s, r, src'[r]>> \in crossed' /\ In(s, r)' = src'[r]
      BY <1>8, <2>1, <2>2, ChangeCells, ChangeCrosses
    <3>2. <<s, r, In(s, r)'>> \in crossed'
      BY <3>1
    <3> QED
      BY <3>2 DEF ReadsNamed, Slipped
  <2>3. CASE s = k + 1 /\ r \in R
    BY <1>5, <2>3, WaitingCovers
  <2>4. CASE ~(s <= k + 1 /\ r \in R)
    <3>1. In(s, r)' = In(s, r)
      BY <2>1, <2>4, ChangeCells
    <3> QED
      BY <1>1, <1>2, <1>4, <2>1, <3>1, FreeStays, ReadsStay
  <2> QED
    BY <1>6, <2>2, <2>3, <2>4
<1>9. ReadsCovered'
  BY <1>1, <1>8 DEF ReadsCovered
<1> QED
  BY <1>7, <1>9 DEF WorkInv

\* The commit writes what the worker has read, and deletes the row that named it: a
\* cell it leaves behind its input is named by the row of the change that came since.
LEMMA CommitWork ==
  ASSUME BaseInv, CellsInv, WorkInv, NEW w \in Worker, Commit(w)
  PROVE  WorkInv'
<1> PICK i \in Item : i = job[w].item
  BY AtItem
<1> PICK next \in [TaskId -> Row] :
      /\ NextStage(next, i.stage, i.seeds)
      /\ outbox' = IF Owns(w, i.task) THEN Delete(next, i.task) ELSE next
  BY CommitKeeps
<1>1. /\ TypeOK /\ TypeOK' /\ dead' = dead /\ Finish(w) /\ job[w].phase = "running"
      /\ crossed' = crossed /\ Remember
      /\ \A t \in TaskId : Settled(t)
      /\ i.task \in TaskId /\ i.stage \in Stage /\ i.seeds \in SUBSET Record
  BY CommitKeeps, AtItem DEF BaseInv, Commit
<1>2. job'[w].phase = "idle" /\ \A v \in Worker \ {w} : job'[v] = job[v]
  BY <1>1, FinishFacts
<1>3. /\ NobodyStarts /\ NobodyGains
      /\ NoNewChunks /\ \A v \in Worker, t \in TaskId : Owns(v, t)' => Owns(v, t)
  BY <1>1, <1>2, SettledGainsNothing DEF NoNewChunks, NobodyStarts
<1>4. \A t \in TaskId : t # i.task \/ ~Owns(w, i.task) => outbox'[t] = next[t] /\ Stays(outbox', t)
  <2>1. \A t \in TaskId : Stays(next, t)
    BY NextStageStays
  <2>2. \A t \in TaskId : t # i.task \/ ~Owns(w, i.task) => outbox'[t] = next[t]
    BY <1>1, DeleteFacts
  <2> QED
    BY <2>1, <2>2 DEF Stays
<1>5. ASSUME NEW s \in Stage, NEW r \in Record, Names(i.task, s, r), Owns(w, i.task)
      PROVE  s = i.stage /\ r \in i.seeds
  <2>1. i = ItemOf(i.task)
    BY <1>1, <1>5, AtItem
  <2> QED
    BY <1>5, <2>1 DEF Names, ItemOf
<1>6. ASSUME NEW s \in Stage, NEW r \in Record, s # i.stage \/ r \notin i.seeds
      PROVE  Carries(TaskId, s, r)
  BY <1>1, <1>3, <1>4, <1>5, <1>6, RowsCarry
<1>7. ASSUME NEW s \in Stage, s = i.stage + 1, NEW r \in i.seeds PROVE NamedByWaiting(s, r)
  <2>1. i.stage # Stages
    BY <1>7, OutboxAssumption DEF Stage, OutboxAssumption
  <2> PICK y \in TaskId : Enqueued(outbox, next, y, s, i.seeds)
    BY <1>7, <2>1 DEF NextStage
  <2>2. outbox'[y] = next[y]
    BY <1>4 DEF Enqueued, Owns
  <2>3. outbox'[y].status = "pending" /\ outbox'[y].stage = s /\ r \in outbox'[y].seeds
    BY <2>2 DEF Enqueued
  <2> QED
    BY <2>3, WaitingNames
<1>8. i.stage # i.stage + 1
  BY <1>1 DEF Stage
<1>9. ASSUME NEW t \in TaskId, Free(t) PROVE Stays(outbox', t)
  <2>1. ~Mine(w, t)
    BY <1>1, <1>9 DEF Free
  <2> QED
    BY <1>4, <2>1 DEF Mine
<1>10. ASSUME NEW s \in Stage, NEW r \in Record
       PROVE  Carries({t \in TaskId : Free(t)}, s, r)
  BY <1>1, <1>3, <1>9, RowsCarry
<1>11. NothingLost'
  <2> SUFFICES ASSUME NEW s \in Stage, NEW r \in Record
               PROVE  \/ comp'[s][r] = In(s, r)' \/ DeadLettered(s, r)' \/ Slipped(s, r)'
                      \/ \E t \in TaskId : Names(t, s, r)'
    BY DEF NothingLost
  <2>1. CASE s = i.stage /\ r \in i.seeds
    <3>1. comp'[s][r] = job[w].reads[r] /\ In(s, r)' = In(s, r)
      BY <1>8, <2>1, CommitCells
    <3>2. ReadsNamed(w, s, r)
      BY <1>1, <2>1 DEF WorkInv, ReadsCovered
    <3>3. Carries({t \in TaskId : Free(t)}, s, r)
      BY <1>10
    <3> QED
      BY <3>1, <3>2, <3>3 DEF ReadsNamed, Carries, NamedByWaiting
  <2>2. CASE s = i.stage + 1 /\ r \in i.seeds
    BY <1>7, <2>2 DEF NamedByWaiting
  <2>3. CASE r \notin i.seeds \/ (s # i.stage /\ s # i.stage + 1)
    <3>1. comp'[s][r] = comp[s][r] /\ In(s, r)' = In(s, r)
      BY <2>3, CommitCells
    <3> QED
      BY <1>6, <2>3, <3>1, CellStays DEF WorkInv
  <2> QED
    BY <2>1, <2>2, <2>3
<1>12. ASSUME NEW v \in Worker, NEW s \in Stage, job'[v].phase = "running",
              job'[v].item.stage = s, NEW r \in job'[v].item.seeds
       PROVE  ReadsNamed(v, s, r)'
  <2>1. v # w /\ job'[v] = job[v]
    BY <1>2, <1>12
  <2>2. r \in Record /\ ReadsNamed(v, s, r)
    BY <1>1, <1>12, <2>1, AtItem DEF WorkInv, ReadsCovered
  <2>3. CASE s = i.stage + 1 /\ r \in i.seeds
    BY <1>7, <2>3, WaitingCovers
  <2>4. CASE s # i.stage + 1 \/ r \notin i.seeds
    <3>1. In(s, r)' = In(s, r)
      BY <2>2, <2>4, CommitCells
    <3>2. Carries({t \in TaskId : Free(t)}, s, r)
      BY <1>10, <2>2
    <3>3. \A t \in TaskId : Free(t) => t \in {u \in TaskId : Free(u)} /\ Free(t)'
      BY <1>3, FreeStays
    <3> QED
      BY <2>1, <2>2, <3>1, <3>2, <3>3, ReadsStay
  <2> QED
    BY <2>3, <2>4
<1> QED
  BY <1>11, <1>12 DEF WorkInv, ReadsCovered

LEMMA WorkStep ==
  ASSUME BaseInv, CellsInv, WorkInv, [Next]_vars
  PROVE  WorkInv'
<1>1. CASE \E R \in (SUBSET Record) \ {{}}, k \in 0..Stages : Change(R, k)
  BY <1>1, ChangeWork
<1>2. CASE \E w \in Worker : TryLocks(w) \/ Commit(w)
  BY <1>2, TryLocksWork, CommitWork
<1>3. TypeOK /\ TypeOK'
  BY BaseStep DEF BaseInv
<1> QED
  BY <1>1, <1>2, <1>3, OthersQuiet, QuietCarries, QuietWork DEF Carried

LEMMA WorkInit == Init => WorkInv
<1> SUFFICES ASSUME Init PROVE WorkInv
  OBVIOUS
<1>1. \A s \in Stage, r \in Record : comp[s][r] = In(s, r)
  <2> SUFFICES ASSUME NEW s \in Stage, NEW r \in Record PROVE comp[s][r] = In(s, r)
    OBVIOUS
  <2>1. s # 1 => s - 1 \in Stage
    BY OutboxAssumption DEF Stage, OutboxAssumption
  <2> QED
    BY <2>1 DEF Init, In
<1>2. \A w \in Worker : job[w].phase = "idle"
  BY DEF Init, Idle
<1> QED
  BY <1>1, <1>2 DEF WorkInv, NothingLost, ReadsCovered

\* A computed cell that does not show its input is always named by a row or by a dead
\* letter, whatever fails, stalls, crashes or is taken over, unless it slipped in one of
\* two ways: two transactions with locks of different kinds met there, or a merge of a
\* seed task forgot it; and only until its input next changes.
THEOREM NoWorkLost == Spec => []NoLostWork
<1>1. BaseInv /\ CellsInv /\ WorkInv /\ [Next]_vars => WorkInv'
  BY WorkStep
<1>2. Init => WorkInv
  BY WorkInit
<1>3. WorkInv => NoLostWork
  BY WorkGivesNoLostWork
<1> QED
  BY <1>1, <1>2, <1>3, AlwaysCellsInv, PTL DEF Spec
OneKind == \A S, T \in (SUBSET Record) \ {{}} : LockKind(S) = LockKind(T)

LEMMA NothingCrosses ==
  ASSUME OneKind, BaseInv, NEW s, NEW S \in SUBSET Record
  PROVE  Crossing(s, S) = {}
<1> SUFFICES ASSUME NEW r \in S, NEW w \in Running(s), r \in job[w].item.seeds,
                    LockKind(job[w].item.seeds) # LockKind(S)
             PROVE  FALSE
  BY DEF Crossing
<1> PICK T : T = job[w].item.seeds
  OBVIOUS
<1>1. T \in (SUBSET Record) \ {{}} /\ S \in (SUBSET Record) \ {{}}
  BY AtItem DEF Running
<1>2. LockKind(T) = LockKind(S)
  BY <1>1 DEF OneKind
<1> QED
  BY <1>2

\* Where all sets of records are locked in one way and there are no seed tasks, nothing
\* slips: the exceptions of NoWorkLost and OutboxImplementsCells are those two.
THEOREM NothingSlips ==
  ASSUME OneKind, SeedStages = {}
  PROVE  Spec => [](crossed = {} /\ forgotten = {})
<1>1. BaseInv /\ (crossed = {} /\ forgotten = {}) /\ [Next]_vars =>
        (crossed = {} /\ forgotten = {})'
  <2> SUFFICES ASSUME BaseInv, crossed = {}, forgotten = {}, [Next]_vars
               PROVE  crossed' = {} /\ forgotten' = {}
    OBVIOUS
  <2>1. Remember => forgotten' = {}
    BY DEF Remember
  <2>2. ASSUME NEW R \in SUBSET Record, NEW k \in 0..Stages, Change(R, k)
        PROVE  crossed' = {} /\ forgotten' = {}
    <3>1. \A s \in 1..k : {<<s, r, src'[r]>> : r \in Crossing(s, R)} = {}
      BY NothingCrosses
    <3> QED
      BY <2>1, <2>2, <3>1 DEF Change
  <2>3. ASSUME NEW w \in Worker, TryLocks(w) PROVE crossed' = {} /\ forgotten' = {}
    <3>1. Crossing(job[w].item.stage, job[w].item.seeds) = {}
      BY AtItem, NothingCrosses
    <3> QED
      BY <2>3, <3>1 DEF TryLocks
  <2>4. ASSUME NEW w \in Worker, ItemStep(w), ~TryLocks(w) PROVE crossed' = {} /\ forgotten' = {}
    BY <2>1, <2>4 DEF ItemStep, Start, SkipLost, EnqueueChunk, FinishSplit, Commit, Release
  <2>5. ASSUME NEW w \in Worker, Claim(w) PROVE crossed' = {} /\ forgotten' = {}
    BY <2>5 DEF Claim, ClaimById, ClaimBatch, TakeOver, TakeRows
  <2>6. ASSUME NEW w \in Worker, NEW fatal \in BOOLEAN, Fail(w, fatal)
        PROVE  crossed' = {} /\ forgotten' = {}
    BY <2>6 DEF Fail
  <2>7. ASSUME \/ \E w \in Worker : Heartbeat(w) \/ Crash(w)
               \/ \E t \in TaskId : Clock(t)
               \/ \E d \in dead : Replay(d)
               \/ UNCHANGED vars
        PROVE  crossed' = {} /\ forgotten' = {}
    BY <2>7 DEF Heartbeat, Crash, Clock, LeaseExpires, Stall, Replay, vars
  <2> QED
    BY <2>2, <2>3, <2>4, <2>5, <2>6, <2>7 DEF Next
<1>2. Init => crossed = {} /\ forgotten = {}
  BY DEF Init
<1> QED
  BY <1>1, <1>2, AlwaysBaseInv, PTL DEF Spec
=============================================================================
