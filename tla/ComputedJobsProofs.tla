-------------------------- MODULE ComputedJobsProofs --------------------------
(***************************************************************************)
(* Proofs about ComputedJobs, for any number of jobs, workers and          *)
(* backends.  The two statements of a claim see different states of the    *)
(* queue when there are several backends, so the invariants say what is    *)
(* still true of a chosen job when its UPDATE comes.                       *)
(***************************************************************************)
EXTENDS ComputedJobs, FiniteSetTheorems, TLAPS

\* A chosen job was the oldest pending one, and nothing older turns up.
ChosenOldest ==
    \A w \in Worker : Claiming(w) =>
        /\ status[chosen[w]] # "absent"
        /\ \A i \in Pending : created[chosen[w]] <= created[i]

CreatedBefore == \A j \in Job : created[j] <= clock

\* Nothing becomes pending again, whoever answers what.
PendingUnclaimed ==
    \A j \in Job : status[j] \in {"absent", "pending"} =>
        attempts[j] = 0 /\ taken[j] = {}

OneClaimPerBackend ==
    \A v, w \in Worker :
        Claiming(v) /\ Claiming(w) /\ BackendOf[v] = BackendOf[w] => v = w

\* What a backend is about to hand out it has not handed out before, and a
\* worker holds what its backend has handed out.
ClaimIsNew ==
    \A w \in Worker :
        /\ Claiming(w) => BackendOf[w] \notin taken[chosen[w]]
        /\ held[w] # None => BackendOf[w] \in taken[held[w]]

\* An answer that comes during a claim of the job comes to another backend.
AnsweredElsewhere ==
    /\ \A j \in Job : status[j] \in Outcome => answeredAt[j] \in Backend
    /\ \A w \in Worker :
        Claiming(w) /\ status[chosen[w]] \in Outcome =>
            answeredAt[chosen[w]] # BackendOf[w]

FiniteTaken == \A j \in Job : IsFiniteSet(taken[j])

QInv == TypeOK /\ CreatedBefore /\ PendingUnclaimed /\ ChosenOldest /\ NoOvertaking

CInv ==
    /\ OneClaimPerBackend
    /\ ClaimIsNew
    /\ AnsweredElsewhere
    /\ FiniteTaken
    /\ ExclusiveClaim

IInv == QInv /\ CInv

-----------------------------------------------------------------------------
\* The invariant holds of the empty queue.
LEMMA InitIInv == Init => IInv
<1> SUFFICES ASSUME Init PROVE IInv
  OBVIOUS
<1> USE ComputedJobsAssumption DEF Init
<1>1. QInv
  BY DEF QInv, TypeOK, Status, CreatedBefore, PendingUnclaimed, ChosenOldest,
         NoOvertaking, Claiming, Pending
<1>2. FiniteTaken
  BY FS_EmptySet DEF FiniteTaken
<1>3. ExclusiveClaim
  BY FS_EmptySet DEF ExclusiveClaim
<1>4. OneClaimPerBackend /\ ClaimIsNew /\ AnsweredElsewhere
  BY DEF OneClaimPerBackend, ClaimIsNew, AnsweredElsewhere, Claiming, Outcome
<1> QED
  BY <1>1, <1>2, <1>3, <1>4 DEF IInv, CInv

\* The order of the queue, whoever works on it.
LEMMA NextQInv == QInv /\ [Next]_vars => QInv'
<1> SUFFICES ASSUME QInv, [Next]_vars PROVE QInv'
  OBVIOUS
<1> USE ComputedJobsAssumption
    DEF QInv, TypeOK, Status, CreatedBefore, PendingUnclaimed, ChosenOldest,
        NoOvertaking, Claiming, Pending, Exists, history
<1>1. CASE Tick
  BY <1>1 DEF Tick
<1>2. ASSUME NEW j \in Job, NEW b \in Backend, EnqueueComputedJob(j, b)
      PROVE QInv'
  BY <1>2 DEF EnqueueComputedJob
<1>3. ASSUME NEW w \in Worker, SelectOldest(w) PROVE QInv'
  BY <1>3 DEF SelectOldest
<1>4. ASSUME NEW w \in Worker, UpdateClaimed(w) PROVE QInv'
  BY <1>4 DEF UpdateClaimed
<1>5. ASSUME NEW j \in Job, NEW b \in Backend,
             NEW outcome \in {"completed", "failed"}, Finish(j, b, outcome)
      PROVE QInv'
  BY <1>5 DEF Finish
<1>6. ASSUME NEW w \in Worker, LetGo(w) PROVE QInv'
  BY <1>6 DEF LetGo
<1>7. ASSUME NEW b \in Backend, BackendDies(b) PROVE QInv'
  BY <1>7 DEF BackendDies
<1>8. ASSUME NEW jobs \in SUBSET Job, NEW b \in Backend,
             PermanentDeleteTable(jobs, b)
      PROVE QInv'
  BY <1>8 DEF PermanentDeleteTable
<1>9. CASE UNCHANGED vars
  BY <1>9 DEF vars
<1> QED
  BY <1>1, <1>2, <1>3, <1>4, <1>5, <1>6, <1>7, <1>8, <1>9
     DEF Next, CompleteComputedJob, FailComputedJob

\* A claim adds its backend to those that have handed the job out.
LEMMA ClaimCounts ==
  ASSUME IInv, NEW w \in Worker, UpdateClaimed(w)
  PROVE  FiniteTaken' /\ \A j \in Job : attempts'[j] = Cardinality(taken'[j])
<1> USE ComputedJobsAssumption DEF IInv, QInv, CInv, TypeOK
<1>1. CASE ~Exists(chosen[w])
  BY <1>1 DEF UpdateClaimed, FiniteTaken, ExclusiveClaim
<1>2. CASE Exists(chosen[w])
  <2> DEFINE c == chosen[w]
  <2>1. c \in Job /\ BackendOf[w] \notin taken[c] /\ IsFiniteSet(taken[c])
    BY DEF UpdateClaimed, Claiming, ClaimIsNew, FiniteTaken
  <2>2. /\ IsFiniteSet(taken[c] \cup {BackendOf[w]})
        /\ Cardinality(taken[c] \cup {BackendOf[w]}) = Cardinality(taken[c]) + 1
    BY <2>1, FS_AddElement
  <2>3. /\ attempts' = [attempts EXCEPT ![c] = @ + 1]
        /\ taken' = [taken EXCEPT ![c] = @ \cup {BackendOf[w]}]
    BY <1>2 DEF UpdateClaimed
  <2>4. attempts[c] = Cardinality(taken[c])
    BY <2>1 DEF ExclusiveClaim
  <2>5. ASSUME NEW j \in Job
        PROVE IsFiniteSet(taken'[j]) /\ attempts'[j] = Cardinality(taken'[j])
    <3>1. CASE j = c
      BY <2>1, <2>2, <2>3, <2>4, <3>1
    <3>2. CASE j # c
      BY <2>3, <3>2 DEF FiniteTaken, ExclusiveClaim
    <3> QED
      BY <3>1, <3>2
  <2> QED
    BY <2>5 DEF FiniteTaken
<1> QED
  BY <1>1, <1>2

\* Between the two statements of a claim its backend neither claims nor takes
\* an answer; another one may do both.
LEMMA NextIInv == IInv /\ [Next]_vars => IInv'
<1> SUFFICES ASSUME IInv, [Next]_vars PROVE CInv'
  BY NextQInv DEF IInv
<1> USE ComputedJobsAssumption
    DEF IInv, QInv, CInv, TypeOK, Status, PendingUnclaimed,
        OneClaimPerBackend, ClaimIsNew, AnsweredElsewhere, FiniteTaken,
        ExclusiveClaim, Claiming, Pending, Exists, Outcome, history
<1>1. CASE Tick
  BY <1>1 DEF Tick
<1>2. ASSUME NEW j \in Job, NEW b \in Backend, EnqueueComputedJob(j, b)
      PROVE CInv'
  BY <1>2 DEF EnqueueComputedJob
<1>3. ASSUME NEW w \in Worker, SelectOldest(w) PROVE CInv'
  BY <1>3 DEF SelectOldest, Free
<1>4. ASSUME NEW w \in Worker, UpdateClaimed(w) PROVE CInv'
  <2>1. FiniteTaken' /\ \A j \in Job : attempts'[j] = Cardinality(taken'[j])
    BY <1>4, ClaimCounts
  <2>2. (OneClaimPerBackend /\ ClaimIsNew /\ AnsweredElsewhere)'
    BY <1>4 DEF UpdateClaimed
  <2>3. \A u, v \in Worker :
          held'[u] = held'[v] /\ held'[u] # None /\ BackendOf[u] = BackendOf[v]
            => u = v
    BY <1>4 DEF UpdateClaimed
  <2> QED
    BY <2>1, <2>2, <2>3
<1>5. ASSUME NEW j \in Job, NEW b \in Backend,
             NEW outcome \in {"completed", "failed"}, Finish(j, b, outcome)
      PROVE CInv'
  BY <1>5 DEF Finish, Free
<1>6. ASSUME NEW w \in Worker, LetGo(w) PROVE CInv'
  BY <1>6 DEF LetGo
<1>7. ASSUME NEW b \in Backend, BackendDies(b) PROVE CInv'
  BY <1>7 DEF BackendDies
<1>8. ASSUME NEW jobs \in SUBSET Job, NEW b \in Backend,
             PermanentDeleteTable(jobs, b)
      PROVE CInv'
  BY <1>8 DEF PermanentDeleteTable
<1>9. CASE UNCHANGED vars
  BY <1>9 DEF vars
<1> QED
  BY <1>1, <1>2, <1>3, <1>4, <1>5, <1>6, <1>7, <1>8, <1>9
     DEF Next, CompleteComputedJob, FailComputedJob

-----------------------------------------------------------------------------
\* The inductive invariant holds in every reachable state of the queue.
THEOREM Invariance == Spec => []IInv
<1>1. Init => IInv
  BY InitIInv
<1>2. IInv /\ [Next]_vars => IInv'
  BY NextIInv
<1> QED
  BY <1>1, <1>2, PTL DEF Spec

\* Rows and workers keep their shapes.
THEOREM TypeCorrect == Spec => []TypeOK
<1>1. IInv => TypeOK
  BY DEF IInv, QInv
<1> QED
  BY <1>1, Invariance, PTL

\* claimNextComputedJob of one backend hands a job out once at most, and never
\* to two of its workers, whatever other backends and answers do.
THEOREM JobsAreClaimedOnce == Spec => []ExclusiveClaim
<1>1. IInv => ExclusiveClaim
  BY DEF IInv, CInv
<1> QED
  BY <1>1, Invariance, PTL

\* claimNextComputedJob takes jobs in the order of their creation, also when
\* several backends race for them.
THEOREM OldestFirst == Spec => []NoOvertaking
<1>1. IInv => NoOvertaking
  BY DEF IInv, QInv
<1> QED
  BY <1>1, Invariance, PTL

\* A claim never takes an answered job back into work, except one that was
\* under way when another backend took the answer.
THEOREM OutcomesReopenByRaceOnly == Spec => ReopenedByRaceOnly
<1> DEFINE Races ==
        \A j \in Job : status[j] \in Outcome /\ status'[j] = "running" =>
            \E w \in Worker :
                chosen[w] = j /\ answeredAt[j] \in Backend \ {BackendOf[w]}
<1>1. IInv /\ [Next]_vars => [Races]_vars
  <2> SUFFICES ASSUME IInv, Next, NEW j \in Job,
                      status[j] \in Outcome, status'[j] = "running"
               PROVE \E w \in Worker :
                        chosen[w] = j /\ answeredAt[j] \in Backend \ {BackendOf[w]}
    OBVIOUS
  <2> USE ComputedJobsAssumption DEF IInv, QInv, TypeOK, Status, Outcome
  <2>1. PICK w \in Worker : UpdateClaimed(w)
    BY DEF Next, Tick, EnqueueComputedJob, CompleteComputedJob,
           FailComputedJob, Finish, PermanentDeleteTable, SelectOldest, LetGo,
           BackendDies, vars
  <2>2. chosen[w] = j
    BY <2>1 DEF UpdateClaimed
  <2>3. answeredAt[j] \in Backend \ {BackendOf[w]}
    BY <2>1, <2>2 DEF CInv, AnsweredElsewhere, UpdateClaimed
  <2> QED
    BY <2>2, <2>3
<1> QED
  BY <1>1, Invariance, PTL DEF Spec, ReopenedByRaceOnly
=============================================================================
