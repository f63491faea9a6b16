--------------------------- MODULE ComputedOutbox ---------------------------
(***************************************************************************)
(* The computed update pipeline of the v2 table repository: a user's       *)
(* transaction changes records, updates what it can in the same            *)
(* transaction and leaves the rest in the table computed_update_outbox;    *)
(* workers claim its rows under a lease, recompute, and enqueue what the   *)
(* change propagates to.  One base, a chain of stages 1..Stages: the cells *)
(* of stage s are computed from those of stage s - 1, the first from the   *)
(* source field.  A cell's value is the version of the source it shows.    *)
(* Each stage has a seed table of its own and one target per seed record.  *)
(***************************************************************************)
EXTENDS Naturals, FiniteSets, Sequences

CONSTANTS
  Record,           \* records of the base
  Stages,           \* length of the dependency chain
  TaskId,           \* ids of outbox rows (a bound of the model)
  Worker, NoWorker, \* executions of runOnce and runTaskById
  MaxVersion,       \* changes of one record (a bound of the model)
  Changeable,       \* records a user may change more than once (a bound of the model)
  MaxFaults,        \* failures, crashes, stalls, takeovers, replays (a bound of the model)
  MaxAttempts,      \* config.maxAttempts
  InlineLimit,      \* config.seedInlineLimit
  SeedStages,       \* stages whose tasks are seed tasks (taskType 'seed')
  SeedCap,          \* resolveEffectiveMaxSeedRecordsPerTask, per stage
  ChunksOf(_, _),   \* splitSeedRecordDtos: the chunks of a seed set, given the cap
  RecordLockLimit,  \* lockConfig.maxRecordLocks
  Shard,            \* resolveBatchShard
  MaxPerBase,       \* config.maxConcurrentProcessingPerBase
  MaxPerTable       \* config.maxConcurrentProcessingPerSeedTable

Stage == 1..Stages

ASSUME OutboxAssumption ==
  /\ IsFiniteSet(Record)
  /\ TaskId # {}
  /\ Stages \in Nat \ {0}
  /\ NoWorker \notin Worker
  /\ MaxVersion \in Nat \ {0}
  /\ MaxFaults \in Nat
  /\ MaxAttempts \in Nat \ {0}
  /\ InlineLimit \in Nat
  /\ SeedStages \subseteq Stage
  /\ SeedCap \in [Stage -> Nat \ {0}]
  /\ RecordLockLimit \in Nat
  /\ MaxPerBase \in Nat \ {0}
  /\ MaxPerTable \in Nat \ {0}

\* Disjoint chunks of at most n seeds, in order.
Chunkings(S, n) ==
  LET c == (Cardinality(S) + n - 1) \div n
  IN  {f \in [1..c -> SUBSET S] :
         /\ UNION {f[i] : i \in 1..c} = S
         /\ \A i \in 1..c : Cardinality(f[i]) <= n
         /\ \A i, j \in 1..c : i # j => f[i] \cap f[j] = {}}

ASSUME ChunksAssumption ==
  \A S \in SUBSET Record, s \in Stage : ChunksOf(S, SeedCap[s]) \in Chunkings(S, SeedCap[s])

VARIABLES
  src,    \* src[r]: version of the source field
  comp,   \* comp[s][r]: version the computed cell shows
  outbox, \* the rows of computed_update_outbox
  dead,   \* the rows of computed_update_dead_letter
  hold,   \* hold[w]: the items w has claimed and not finished
  job,    \* job[w]: the item w is at, and how far
  faults, \* faults so far
  crossed,   \* history: <<stage, record, input>> handled under locks of two kinds at once
  forgotten  \* history: <<stage, record, input>> when a merge of a seed task forgot it

vars == <<src, comp, outbox, dead, hold, job, faults, crossed, forgotten>>

(***************************************************************************)
(* The outbox.  A row's seeds are the union of seed_record_ids and the     *)
(* rows of computed_update_outbox_seed; spilled says that seed_record_ids  *)
(* is null and the seeds are rows.  `path' is what splitting appends to    *)
(* the plan hash; `fresh' stands for locked_at > now - processingLeaseMs.  *)
(* next_run_at only delays a claim, which may come late anyhow, and is     *)
(* left to OutboxWakeups.                                                  *)
(***************************************************************************)
Version == 0..MaxVersion
Status  == {"absent", "pending", "processing"}

Row == [status : Status, stage : Stage, path : Seq(Nat), seeds : SUBSET Record,
        spilled : BOOLEAN, attempts : 0..MaxAttempts,
        owner : Worker \cup {NoWorker}, fresh : BOOLEAN]

Letter == [stage : Stage, path : Seq(Nat), seeds : SUBSET Record]

Item == [task : TaskId, stage : Stage, path : Seq(Nat), seeds : SUBSET Record,
         attempts : 0..MaxAttempts]

Phase == {"idle", "splitting", "locking", "running", "blocked"}

NewRow(s, p, S) ==
  [status |-> "pending", stage |-> s, path |-> p, seeds |-> S,
   spilled |-> Cardinality(S) > InlineLimit, attempts |-> 0,
   owner |-> NoWorker, fresh |-> FALSE]

Absent == [NewRow(1, <<>>, {}) EXCEPT !.status = "absent"]

\* Mutant of KnownToMerge: the row of computed_update_outbox alone, whatever the task.
KnownFromRow(row) == IF row.spilled THEN {} ELSE row.seeds

\* The seeds a merge starts from: mergeComputedTask loads the stored rows,
\* mergeSeedTask parses the outbox row alone.
KnownToMerge(row) ==
  IF row.stage \in SeedStages /\ row.spilled THEN {} ELSE row.seeds

Merged(row, S) ==
  LET all   == KnownToMerge(row) \cup S
      spill == Cardinality(all) > InlineLimit
  IN  [row EXCEPT !.seeds = IF spill /\ row.spilled THEN @ \cup all ELSE all,
                  !.spilled = spill]

\* Mutant of Pending: the unique index would let a row in processing be merged into.
Unfinished(ob, s, p) ==
  {t \in TaskId : ob[t].status # "absent" /\ ob[t].stage = s /\ ob[t].path = p}

Pending(ob, s, p) ==
  {t \in TaskId : ob[t].status = "pending" /\ ob[t].stage = s /\ ob[t].path = p}

FreeIds(ob) == {t \in TaskId : ob[t].status = "absent"}

\* A row can be written: one of the key is pending, or an id is left (a bound).
CanEnqueue(ob, s, p) == Pending(ob, s, p) # {} \/ FreeIds(ob) # {}

EnqueueOrMerge(ob, s, p, S) ==
  IF Pending(ob, s, p) # {}
  THEN LET t == CHOOSE t \in Pending(ob, s, p) : TRUE
       IN  [ob EXCEPT ![t] = Merged(@, S)]
  ELSE LET t == CHOOSE t \in FreeIds(ob) : TRUE
       IN  [ob EXCEPT ![t] = NewRow(s, p, S)]

Delete(ob, t) == [ob EXCEPT ![t] = Absent]

ItemOf(t) == [task |-> t, stage |-> outbox[t].stage, path |-> outbox[t].path,
              seeds |-> outbox[t].seeds, attempts |-> outbox[t].attempts]

Owns(w, t) == outbox[t].status = "processing" /\ outbox[t].owner = w

Claimed(row, w) ==
  [row EXCEPT !.status = "processing", !.owner = w, !.fresh = TRUE]

\* Rows of live leases, which the concurrency limits count.
Active == {t \in TaskId : outbox[t].status = "processing" /\ outbox[t].fresh}
ActiveAt(s) == {t \in Active : outbox[t].stage = s}

\* Mutants of Stale: any lease is taken for expired; none is.
AnyLease(t) == outbox[t].status = "processing"
NoLease(t)  == FALSE

Stale(t)    == outbox[t].status = "processing" /\ ~outbox[t].fresh
Runnable(t) == outbox[t].status = "pending"

(***************************************************************************)
(* Cells and locks.  A transaction's advisory locks last to its end, so    *)
(* they are those of the workers inside their transaction.                 *)
(***************************************************************************)
In(s, r) == IF s = 1 THEN src[r] ELSE comp[s - 1][r]

\* A set of records is locked record by record, a large one shard by shard.
LockKind(S) == IF Cardinality(S) <= RecordLockLimit THEN "record" ELSE "batch"

LockKeys(S) ==
  IF LockKind(S) = "record"
  THEN {<<"record", r>> : r \in S}
  ELSE {<<"batch", Shard[r]>> : r \in S}

Running(s) == {w \in Worker : job[w].phase = "running" /\ job[w].item.stage = s}

\* Mutant of LocksFree: the locks are asked for outside the transaction.
NeverLocked(s, S) == TRUE

LocksFree(s, S) ==
  \A w \in Running(s) : LockKeys(S) \cap LockKeys(job[w].item.seeds) = {}

\* The records of S that a transaction at stage s has under locks of the other
\* kind, which share no key with those of S.
Crossing(s, S) ==
  {r \in S : \E w \in Running(s) :
     r \in job[w].item.seeds /\ LockKind(job[w].item.seeds) # LockKind(S)}

\* The seeds of stage s that a merge drops with the rows they were spilled to.
Dropped(s) ==
  LET kept == {t \in TaskId : /\ outbox[t].stage = s /\ outbox[t].spilled
                              /\ outbox[t].status # "absent" /\ outbox'[t].status # "absent"}
  IN  UNION {outbox[t].seeds \ outbox'[t].seeds : t \in kept}

Remember ==
  forgotten' = forgotten \cup
    UNION {{<<s, r, In(s, r)'>> : r \in Dropped(s)} : s \in SeedStages}

NoItem == [task |-> CHOOSE t \in TaskId : TRUE, stage |-> 1, path |-> <<>>,
           seeds |-> {}, attempts |-> 0]
NoReads == [r \in Record |-> 0]
Idle == [phase |-> "idle", item |-> NoItem, chunks |-> <<>>, next |-> 1, reads |-> NoReads]

Init ==
  /\ src = [r \in Record |-> 0]
  /\ comp = [s \in Stage |-> [r \in Record |-> 0]]
  /\ outbox = [t \in TaskId |-> Absent]
  /\ dead = {}
  /\ hold = [w \in Worker |-> {}]
  /\ job = [w \in Worker |-> Idle]
  /\ faults = 0
  /\ crossed = {}
  /\ forgotten = {}

(***************************************************************************)
(* A user's transaction: the records R change, the stages up to k are      *)
(* recomputed in the transaction under their locks, and the plan of stage  *)
(* k + 1 is enqueued, because its steps are asynchronous by policy or      *)
(* because a lock was not to be had.                                       *)
(***************************************************************************)
Change(R, k) ==
  /\ \A r \in R : src[r] < (IF r \in Changeable THEN MaxVersion ELSE 1)
  /\ \A s \in 1..k : LocksFree(s, R)
  /\ src' = [r \in Record |-> IF r \in R THEN src[r] + 1 ELSE src[r]]
  /\ comp' = [s \in Stage |-> [r \in Record |->
                IF s <= k /\ r \in R THEN src[r] + 1 ELSE comp[s][r]]]
  /\ \/ k = Stages /\ UNCHANGED outbox
     \/ /\ k < Stages
        /\ CanEnqueue(outbox, k + 1, <<>>)
        /\ outbox' = EnqueueOrMerge(outbox, k + 1, <<>>, R)
  /\ crossed' = crossed \cup
                  UNION {{<<s, r, src'[r]>> : r \in Crossing(s, R)} : s \in 1..k}
  /\ UNCHANGED <<dead, hold, job, faults>>
  /\ Remember

(***************************************************************************)
(* Claims.                                                                 *)
(***************************************************************************)
TakeRows(w, T) ==
  /\ outbox' = [t \in TaskId |-> IF t \in T THEN Claimed(outbox[t], w) ELSE outbox[t]]
  /\ hold' = [hold EXCEPT ![w] = {ItemOf(t) : t \in T}]
  /\ UNCHANGED <<src, comp, dead, job, crossed, forgotten>>

\* A wake-up names the row: getClaimDeferral must find nothing to wait for.
ClaimById(w, t) ==
  /\ hold[w] = {}
  /\ Runnable(t) \/ Stale(t)
  /\ Cardinality(Active) < MaxPerBase
  /\ Cardinality(ActiveAt(outbox[t].stage)) < MaxPerTable
  /\ TakeRows(w, {t})
  /\ UNCHANGED faults

\* The poll: expired leases first, one row per seed table, within the limits.
ClaimBatch(w, T) ==
  /\ hold[w] = {}
  /\ \A t \in T : Stale(t) \/ Runnable(t)
  /\ \A t, u \in T : outbox[t].stage = outbox[u].stage => t = u
  /\ \A t \in T, u \in TaskId :
       Runnable(t) /\ Stale(u) => outbox[u].stage # outbox[t].stage
  /\ Cardinality(Active) + Cardinality(T) <= MaxPerBase
  /\ \A t \in T : Cardinality(ActiveAt(outbox[t].stage)) < MaxPerTable
  /\ TakeRows(w, T)
  /\ UNCHANGED faults

\* claimById with allowProcessingTakeover asks neither the lease nor the limits.
TakeOver(w, t) ==
  /\ faults < MaxFaults
  /\ hold[w] = {}
  /\ outbox[t].status = "processing"
  /\ TakeRows(w, {t})
  /\ faults' = faults + 1

(***************************************************************************)
(* A claimed item.                                                         *)
(***************************************************************************)
Finish(w) ==
  /\ hold' = [hold EXCEPT ![w] = @ \ {job[w].item}]
  /\ job' = [job EXCEPT ![w] = Idle]

\* ensureTaskActive renews the lease; a large item goes on to be split.
Start(w, i) ==
  /\ job[w].phase = "idle"
  /\ Owns(w, i.task)
  /\ outbox' = [outbox EXCEPT ![i.task].fresh = TRUE]
  /\ LET large == Cardinality(i.seeds) > SeedCap[i.stage]
     IN  job' = [job EXCEPT ![w] = [Idle EXCEPT
                   !.phase = IF large THEN "splitting" ELSE "locking",
                   !.item = i,
                   !.chunks = IF large THEN ChunksOf(i.seeds, SeedCap[i.stage]) ELSE <<>>]]
  /\ UNCHANGED <<src, comp, dead, hold, faults, crossed, forgotten>>

SkipLost(w, i) ==
  /\ job[w].phase = "idle"
  /\ ~Owns(w, i.task)
  /\ hold' = [hold EXCEPT ![w] = @ \ {i}]
  /\ UNCHANGED <<src, comp, outbox, dead, job, faults, crossed, forgotten>>

\* Each chunk is enqueued in a transaction of its own, under a plan hash of its own.
EnqueueChunk(w) ==
  LET j == job[w]
      p == j.item.path \o <<j.next, Len(j.chunks)>>
  IN  /\ j.phase = "splitting"
      /\ j.next <= Len(j.chunks)
      /\ CanEnqueue(outbox, j.item.stage, p)
      /\ outbox' = EnqueueOrMerge(outbox, j.item.stage, p, j.chunks[j.next])
      /\ job' = [job EXCEPT ![w].next = @ + 1]
      /\ UNCHANGED <<src, comp, dead, hold, faults, crossed>>
      /\ Remember

\* Mutant of FinishSplit: markDone before the last chunk is enqueued.
FinishSplitEarly(w) ==
  /\ job[w].phase = "splitting"
  /\ job[w].next >= Len(job[w].chunks)
  /\ Owns(w, job[w].item.task)
  /\ outbox' = Delete(outbox, job[w].item.task)
  /\ Finish(w)
  /\ UNCHANGED <<src, comp, dead, faults, crossed, forgotten>>

\* markDone after the last chunk; an item lost meanwhile is processed whole.
FinishSplit(w) ==
  LET t == job[w].item.task
  IN  /\ job[w].phase = "splitting"
      /\ job[w].next > Len(job[w].chunks)
      /\ IF Owns(w, t)
         THEN outbox' = Delete(outbox, t) /\ Finish(w)
         ELSE job' = [job EXCEPT ![w].phase = "locking"] /\ UNCHANGED <<outbox, hold>>
      /\ UNCHANGED <<src, comp, dead, faults, crossed, forgotten>>

\* The transaction opens: try-locks, then the statement reads its inputs.
TryLocks(w) ==
  LET i == job[w].item
  IN  /\ job[w].phase = "locking"
      /\ IF LocksFree(i.stage, i.seeds)
         THEN /\ job' = [job EXCEPT ![w].phase = "running",
                           ![w].reads = [r \in Record |->
                             IF r \in i.seeds THEN In(i.stage, r) ELSE 0]]
              /\ crossed' = crossed \cup
                   {<<i.stage, r, In(i.stage, r)>> : r \in Crossing(i.stage, i.seeds)}
         ELSE job' = [job EXCEPT ![w].phase = "blocked"] /\ UNCHANGED crossed
      /\ UNCHANGED <<src, comp, outbox, dead, hold, faults, forgotten>>

\* Mutant of Commit: markDone deletes by id, without locked_by.
CommitUnowned(w) ==
  LET i    == job[w].item
      s    == i.stage
      next == IF s = Stages THEN outbox ELSE EnqueueOrMerge(outbox, s + 1, <<>>, i.seeds)
  IN  /\ job[w].phase = "running"
      /\ s = Stages \/ CanEnqueue(outbox, s + 1, <<>>)
      /\ comp' = [comp EXCEPT ![s] = [r \in Record |->
                    IF r \in i.seeds THEN job[w].reads[r] ELSE comp[s][r]]]
      /\ outbox' = Delete(next, i.task)
      /\ Finish(w)
      /\ UNCHANGED <<src, dead, faults, crossed>>
      /\ Remember

\* The cells, the next stage's task and markDone commit together, and commit
\* too when markDone finds that the lease went to another.
Commit(w) ==
  LET i    == job[w].item
      s    == i.stage
      next == IF s = Stages THEN outbox ELSE EnqueueOrMerge(outbox, s + 1, <<>>, i.seeds)
  IN  /\ job[w].phase = "running"
      /\ s = Stages \/ CanEnqueue(outbox, s + 1, <<>>)
      /\ comp' = [comp EXCEPT ![s] = [r \in Record |->
                    IF r \in i.seeds THEN job[w].reads[r] ELSE comp[s][r]]]
      /\ outbox' = IF Owns(w, i.task) THEN Delete(next, i.task) ELSE next
      /\ Finish(w)
      /\ UNCHANGED <<src, dead, faults, crossed>>
      /\ Remember

LetterOf(i) == [stage |-> i.stage, path |-> i.path, seeds |-> i.seeds]

\* Mutant of ToPending: waiting for a lock counts as an attempt.
ToPendingCounted(row, n) ==
  [row EXCEPT !.status = "pending", !.attempts = n + 1,
              !.owner = NoWorker, !.fresh = FALSE]

ToPending(row, n) ==
  [row EXCEPT !.status = "pending", !.attempts = n,
              !.owner = NoWorker, !.fresh = FALSE]

\* A lock was taken: the row waits again, or its seeds join the pending row of its key.
Release(w) ==
  LET i == job[w].item
  IN  /\ job[w].phase = "blocked"
      /\ outbox' =
           IF ~Owns(w, i.task) THEN outbox
           ELSE IF Pending(outbox, i.stage, i.path) # {}
           THEN Delete(EnqueueOrMerge(outbox, i.stage, i.path, i.seeds), i.task)
           ELSE [outbox EXCEPT ![i.task] = ToPending(@, outbox[i.task].attempts)]
      /\ Finish(w)
      /\ UNCHANGED <<src, comp, dead, faults, crossed>>
      /\ Remember

\* The transaction fails and rolls back, or a chunk could not be enqueued; then
\* markFailed: a retry that counts, or the dead letter.  It does not look for a
\* pending row of its key: if there is one the unique index refuses the update,
\* and the row stays in processing.
Fail(w, fatal) ==
  LET i == job[w].item
      n == IF fatal THEN MaxAttempts ELSE i.attempts + 1
  IN  /\ job[w].phase \in {"running", "splitting"}
      /\ faults < MaxFaults
      /\ faults' = faults + 1
      /\ IF ~Owns(w, i.task) THEN UNCHANGED <<outbox, dead>>
         ELSE \/ /\ n >= MaxAttempts
                 /\ outbox' = Delete(outbox, i.task)
                 /\ dead' = dead \cup {LetterOf(i)}
              \/ /\ n < MaxAttempts
                 /\ outbox' = IF Pending(outbox, i.stage, i.path) # {} THEN outbox
                              ELSE [outbox EXCEPT ![i.task] = ToPending(@, n)]
                 /\ UNCHANGED dead
      /\ Finish(w)
      /\ UNCHANGED <<src, comp, crossed, forgotten>>

(***************************************************************************)
(* Time, and what may go wrong.                                            *)
(***************************************************************************)
Held(w, t) == \E i \in hold[w] : i.task = t

\* The heartbeat renews what the worker holds and still owns.
Heartbeat(w) ==
  LET late == {t \in TaskId : Owns(w, t) /\ Held(w, t) /\ Stale(t)}
  IN  /\ late # {}
      /\ outbox' = [t \in TaskId |-> IF t \in late THEN [outbox[t] EXCEPT !.fresh = TRUE]
                                                   ELSE outbox[t]]
      /\ UNCHANGED <<src, comp, dead, hold, job, faults, crossed, forgotten>>

\* Nobody renews the lease: its worker is gone, or gave the item up.
LeaseExpires(t) ==
  /\ outbox[t].status = "processing" /\ outbox[t].fresh
  /\ ~\E w \in Worker : Owns(w, t) /\ Held(w, t)
  /\ outbox' = [outbox EXCEPT ![t].fresh = FALSE]
  /\ UNCHANGED <<src, comp, dead, hold, job, faults, crossed, forgotten>>

\* The worker is alive and too slow for its own lease.
Stall(t) ==
  /\ faults < MaxFaults
  /\ \E w \in Worker : Owns(w, t) /\ Held(w, t)
  /\ outbox[t].fresh
  /\ outbox' = [outbox EXCEPT ![t].fresh = FALSE]
  /\ faults' = faults + 1
  /\ UNCHANGED <<src, comp, dead, hold, job, crossed, forgotten>>

\* The process dies: its transaction rolls back, its rows stay in processing.
Crash(w) ==
  /\ faults < MaxFaults
  /\ hold[w] # {}
  /\ hold' = [hold EXCEPT ![w] = {}]
  /\ job' = [job EXCEPT ![w] = Idle]
  /\ faults' = faults + 1
  /\ UNCHANGED <<src, comp, outbox, dead, crossed, forgotten>>

\* An operator takes a dead letter back; a pending row of its key refuses it.
Replay(d) ==
  /\ faults < MaxFaults
  /\ Pending(outbox, d.stage, d.path) = {}
  /\ FreeIds(outbox) # {}
  /\ LET t == CHOOSE t \in FreeIds(outbox) : TRUE
     IN  outbox' = [outbox EXCEPT ![t] =
                     [NewRow(d.stage, d.path, d.seeds) EXCEPT !.spilled = FALSE]]
  /\ dead' = dead \ {d}
  /\ faults' = faults + 1
  /\ UNCHANGED <<src, comp, hold, job, crossed, forgotten>>

ItemStep(w) ==
  \/ \E i \in hold[w] : Start(w, i) \/ SkipLost(w, i)
  \/ EnqueueChunk(w) \/ FinishSplit(w)
  \/ TryLocks(w) \/ Commit(w) \/ Release(w)

Claim(w) ==
  \/ \E t \in TaskId : ClaimById(w, t) \/ TakeOver(w, t)
  \/ \E T \in (SUBSET TaskId) \ {{}} : ClaimBatch(w, T)

Clock(t) == LeaseExpires(t) \/ Stall(t)

Next ==
  \/ \E R \in (SUBSET Record) \ {{}}, k \in 0..Stages : Change(R, k)
  \/ \E w \in Worker : Claim(w) \/ ItemStep(w) \/ Heartbeat(w) \/ Crash(w)
  \/ \E w \in Worker, fatal \in BOOLEAN : Fail(w, fatal)
  \/ \E t \in TaskId : Clock(t)
  \/ \E d \in dead : Replay(d)

(***************************************************************************)
(* A worker that has started an item goes on; time passes; a row that can  *)
(* be claimed again and again is claimed (its wake-up is delivered until   *)
(* then: OutboxWakeups).                                                   *)
(***************************************************************************)
Fairness ==
  /\ \A w \in Worker : WF_vars(ItemStep(w)) /\ WF_vars(Heartbeat(w))
  /\ \A t \in TaskId : /\ WF_vars(LeaseExpires(t))
                       /\ SF_vars(\E w \in Worker : ClaimById(w, t))

Spec     == Init /\ [][Next]_vars
FairSpec == Spec /\ Fairness

(***************************************************************************)
(* Properties.                                                             *)
(***************************************************************************)
TypeOK ==
  /\ src \in [Record -> Version]
  /\ comp \in [Stage -> [Record -> Version]]
  /\ outbox \in [TaskId -> Row]
  /\ dead \subseteq Letter
  /\ hold \in [Worker -> SUBSET Item]
  /\ job \in [Worker -> [phase : Phase, item : Item, chunks : Seq(SUBSET Record),
                         next : Nat \ {0}, reads : [Record -> Version]]]
  /\ faults \in 0..MaxFaults
  /\ crossed \subseteq Stage \X Record \X Version
  /\ forgotten \subseteq Stage \X Record \X Version

Waiting(s, r) ==
  \E t \in TaskId : outbox[t].status # "absent" /\ outbox[t].stage = s /\ r \in outbox[t].seeds

DeadLettered(s, r) == \E d \in dead : d.stage = s /\ r \in d.seeds

\* The two ways the code loses work: its locks were of two kinds, or a merge of a
\* seed task forgot it.  Either is made good by the next change of the input.
Slipped(s, r) == <<s, r, In(s, r)>> \in crossed \cup forgotten

\* A computed cell that does not show its input has a row that names it: whatever
\* was merged, split, released, taken over, failed or given up, and whoever died
\* (enqueueOrMerge, markDone, releaseForRetry, markFailed together).
NoLostWork ==
  \A s \in Stage, r \in Record :
    comp[s][r] # In(s, r) => Waiting(s, r) \/ DeadLettered(s, r) \/ Slipped(s, r)

\* What the pipeline promises of the cells alone: they only move towards their
\* input, so a worker that lost its lease and still commits overwrites no newer
\* value, unless it met a transaction with locks of the other kind.
Cells == INSTANCE ComputedCells
ImplementsCells == Cells!Spec

\* A row that stays names at least the seeds it named: merging forgets none.
SeedsKept ==
  [][\A t \in TaskId :
       outbox[t].status # "absent" /\ outbox'[t].status # "absent"
         => outbox[t].seeds \subseteq outbox'[t].seeds]_vars

\* The same but for seed tasks whose seeds were spilled: no merge or release of a
\* computed task, and no merge of a seed task that fits its row, forgets one.
OnlySpilledForgotten ==
  [][\A t \in TaskId :
       /\ outbox[t].status # "absent" /\ outbox'[t].status # "absent"
       /\ ~(outbox[t].stage \in SeedStages /\ outbox[t].spilled)
       => outbox[t].seeds \subseteq outbox'[t].seeds]_vars

\* What a worker claimed is still what the row says while it owns the row: a row in
\* processing is not merged into, so markDone deletes no seed it did not handle.
HeldAsStored ==
  \A w \in Worker : \A i \in hold[w] : Owns(w, i.task) => i = ItemOf(i.task)

\* Under a live lease a row leaves processing, or changes hands, only when its
\* owner finishes it, or by a takeover (all the checks of locked_by together).
LeaseHonoured ==
  [][\A t \in TaskId, w \in Worker :
       /\ Owns(w, t) /\ outbox[t].fresh
       /\ outbox'[t].status # "processing" \/ outbox'[t].owner # w
       => hold'[w] # hold[w] \/ faults' # faults]_vars

\* A cell that is behind its input is brought up to date, or a dead letter names it.
EventuallyComputed ==
  \A s \in Stage, r \in Record :
    comp[s][r] # In(s, r) ~>
      \/ comp[s][r] = In(s, r)
      \/ DeadLettered(s, r)
=============================================================================
