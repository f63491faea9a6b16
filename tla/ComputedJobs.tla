----------------------------- MODULE ComputedJobs -----------------------------
(***************************************************************************)
(* The queue of computed jobs (mochi_computed_job): clients of the API     *)
(* enqueue jobs, workers claim the oldest pending one and complete or fail *)
(* it.  The workers are clients of the HTTP API and not in the repository. *)
(*                                                                         *)
(* A claim is a SELECT and an UPDATE in two sqlite3 processes.  Both run   *)
(* in one turn of the backend's event loop, so claims of one backend never *)
(* overlap; those of two backends on the same file do.                     *)
(*                                                                         *)
(* completeComputedJob and failComputedJob take any id: they ask neither   *)
(* for the status of the job nor for who holds it.  taken and answeredAt   *)
(* are history variables.                                                  *)
(***************************************************************************)
EXTENDS Naturals, FiniteSets

CONSTANTS
    Job,        \* ids of jobs, each handed out once by ids.computedJob()
    Worker,     \* clients that claim jobs
    Backend,    \* backend processes on the database file
    BackendOf,  \* [Worker -> Backend]
    None,       \* no job, no backend
    MaxTime     \* bound on created_time

ASSUME ComputedJobsAssumption ==
    /\ BackendOf \in [Worker -> Backend]
    /\ None \notin Job \cup Backend
    /\ MaxTime \in Nat

VARIABLES
    status,     \* of a job's row, "absent" before there is one and "purged"
                \* after it was deleted
    attempts,   \* times the job was claimed
    created,    \* created_time, in milliseconds: jobs may share it
    clock,
    chosen,     \* the job a claim has selected and not updated yet
    held,       \* the job a worker got from its claim and works on
    taken,      \* the backends that have handed a job out
    answeredAt  \* the backend that took the last answer about a job

vars == <<status, attempts, created, clock, chosen, held, taken, answeredAt>>
history == <<taken, answeredAt>>

Status == {"absent", "pending", "running", "completed", "failed", "purged"}
Outcome == {"completed", "failed"}
Exists(j) == status[j] \notin {"absent", "purged"}
\* Mutant of Pending: WHERE status != 'running'.
NotRunning == {j \in Job : Exists(j) /\ status[j] # "running"}
Pending == {j \in Job : status[j] = "pending"}
Claiming(w) == chosen[w] # None

\* Mutant of Free: the backend serves other requests between the two processes.
NeverBusy(b) == TRUE

\* A backend serves no other request before the claim has its answer.
Free(b) == \A w \in Worker : Claiming(w) => BackendOf[w] # b

Init ==
    /\ status = [j \in Job |-> "absent"]
    /\ attempts = [j \in Job |-> 0]
    /\ created = [j \in Job |-> 0]
    /\ clock = 0
    /\ chosen = [w \in Worker |-> None]
    /\ held = [w \in Worker |-> None]
    /\ taken = [j \in Job |-> {}]
    /\ answeredAt = [j \in Job |-> None]

Tick ==
    /\ clock < MaxTime
    /\ clock' = clock + 1
    /\ UNCHANGED <<status, attempts, created, chosen, held, history>>

EnqueueComputedJob(j, b) ==
    /\ Free(b)
    /\ status[j] = "absent"
    /\ status' = [status EXCEPT ![j] = "pending"]
    /\ created' = [created EXCEPT ![j] = clock]
    /\ UNCHANGED <<attempts, clock, chosen, held, history>>

\* Mutant of SelectOldest: ORDER BY created_time DESC.
SelectNewest(w) ==
    /\ held[w] = None
    /\ Free(BackendOf[w])
    /\ \E j \in Pending :
        /\ \A i \in Pending : created[j] >= created[i]
        /\ chosen' = [chosen EXCEPT ![w] = j]
    /\ UNCHANGED <<status, attempts, created, clock, held, history>>

\* SELECT ... WHERE status = 'pending' ORDER BY created_time LIMIT 1.
SelectOldest(w) ==
    /\ held[w] = None
    /\ Free(BackendOf[w])
    /\ \E j \in Pending :
        /\ \A i \in Pending : created[j] <= created[i]
        /\ chosen' = [chosen EXCEPT ![w] = j]
    /\ UNCHANGED <<status, attempts, created, clock, held, history>>

\* UPDATE ... WHERE id = ..., with no look at the status.  The row read back
\* is the worker's answer: null when it was deleted meanwhile.
UpdateClaimed(w) ==
    /\ Claiming(w)
    /\ IF Exists(chosen[w])
       THEN /\ status' = [status EXCEPT ![chosen[w]] = "running"]
            /\ attempts' = [attempts EXCEPT ![chosen[w]] = @ + 1]
            /\ held' = [held EXCEPT ![w] = chosen[w]]
            /\ taken' = [taken EXCEPT ![chosen[w]] = @ \cup {BackendOf[w]}]
       ELSE UNCHANGED <<status, attempts, held, taken>>
    /\ chosen' = [chosen EXCEPT ![w] = None]
    /\ UNCHANGED <<created, clock, answeredAt>>

\* completeComputedJob and failComputedJob at backend b: whoever asks, once
\* or again, and whatever the job's status.
Finish(j, b, outcome) ==
    /\ Free(b)
    /\ Exists(j)
    /\ status' = [status EXCEPT ![j] = outcome]
    /\ answeredAt' = [answeredAt EXCEPT ![j] = b]
    /\ UNCHANGED <<attempts, created, clock, chosen, held, taken>>

\* Mutant of CompleteComputedJob: a status no reader of the queue knows.
CompleteMisspelt(j, b) == Finish(j, b, "complete")

CompleteComputedJob(j, b) == Finish(j, b, "completed")
FailComputedJob(j, b) == Finish(j, b, "failed")

\* permanentDeleteTable: the jobs of the table go, whoever works on them.
PermanentDeleteTable(jobs, b) ==
    /\ Free(b)
    /\ jobs # {} /\ \A j \in jobs : Exists(j)
    /\ status' = [j \in Job |-> IF j \in jobs THEN "purged" ELSE status[j]]
    /\ UNCHANGED <<attempts, created, clock, chosen, held, history>>

\* A worker is done with its job, or dies.  Nothing takes a running job back.
LetGo(w) ==
    /\ held[w] # None
    /\ held' = [held EXCEPT ![w] = None]
    /\ UNCHANGED <<status, attempts, created, clock, chosen, history>>

\* A backend dies in the middle of a claim.
BackendDies(b) ==
    /\ ~Free(b)
    /\ chosen' = [w \in Worker |-> IF BackendOf[w] = b THEN None ELSE chosen[w]]
    /\ UNCHANGED <<status, attempts, created, clock, held, history>>

Next ==
    \/ Tick
    \/ \E j \in Job, b \in Backend :
        \/ EnqueueComputedJob(j, b)
        \/ CompleteComputedJob(j, b)
        \/ FailComputedJob(j, b)
    \/ \E jobs \in SUBSET Job, b \in Backend : PermanentDeleteTable(jobs, b)
    \/ \E w \in Worker :
        \/ SelectOldest(w)
        \/ UpdateClaimed(w)
        \/ LetGo(w)
    \/ \E b \in Backend : BackendDies(b)

Spec == Init /\ [][Next]_vars

-----------------------------------------------------------------------------
\* Type invariant: rows of the queue and what the workers know of them.
TypeOK ==
    /\ status \in [Job -> Status]
    /\ attempts \in [Job -> Nat]
    /\ created \in [Job -> 0 .. MaxTime]
    /\ clock \in 0 .. MaxTime
    /\ chosen \in [Worker -> Job \cup {None}]
    /\ held \in [Worker -> Job \cup {None}]
    /\ taken \in [Job -> SUBSET Backend]
    /\ answeredAt \in [Job -> Backend \cup {None}]

\* A backend hands a job out at most once, so with n backends at most n
\* workers get it, each from another one: though the claim is a read and a
\* write in two processes, the write does not test what was read, jobs are
\* answered at any time by anyone, and backends race for the same job.
ExclusiveClaim ==
    /\ \A j \in Job : attempts[j] = Cardinality(taken[j])
    /\ \A v, w \in Worker :
        held[v] = held[w] /\ held[v] # None /\ BackendOf[v] = BackendOf[w]
            => v = w

\* A claim takes a job that has its outcome back into work in one case only:
\* another backend took the answer between the two processes of the claim.
\* With one backend for the workers and their answers it never happens.
ReopenedByRaceOnly ==
    [][\A j \in Job : status[j] \in Outcome /\ status'[j] = "running" =>
        \E w \in Worker :
            chosen[w] = j /\ answeredAt[j] \in Backend \ {BackendOf[w]}]_vars

\* No job overtakes an older one, with any number of backends: none is
\* claimed while a job created at an earlier millisecond is still pending.
NoOvertaking ==
    \A i, j \in Job :
        status[i] = "pending" /\ status[j] # "absent" /\ created[i] < created[j]
            => attempts[j] = 0
=============================================================================
