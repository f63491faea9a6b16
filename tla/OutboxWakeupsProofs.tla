------------------------- MODULE OutboxWakeupsProofs -------------------------
(***************************************************************************)
(* Located, for any number of rows, processes and faults.  What makes it   *)
(* inductive: every step that takes one of the things that lead to a row   *)
(* away puts another in its place.  Beyond the types it needs only that a  *)
(* process without a redrive, or a retry, remembers nothing of the last.   *)
(***************************************************************************)
EXTENDS OutboxWakeups, TLAPS

Jobs == {Idle} \cup [step : {"claim", "run", "drain", "ask", "fail"}, job : Job]
Runs == [phase : {"none", "acquire", "scan"}, full : BOOLEAN, left : SUBSET Task, rerun : Mode]

Retries == [phase : {"none", "wait", "scan"}, full : BOOLEAN, now : BOOLEAN, left : SUBSET Task]

RunShape ==
  \A p \in Process :
    /\ run[p].phase = "none" => run[p] = NoRun
    /\ retry[p].phase = "none" => retry[p] = NoRetry

Queued(t) == \E j \in queue : j.task = t

Carries(p, t) ==
  \/ t \in owed[p] \/ holder[t] = p \/ probe[p] # None \/ p \notin alive
  \/ Handling(p, t)
  \/ RedriveAhead(run[p], t)
  \/ RetryAhead(retry[p], t)

\* What Located asks of a live row.
Leads(t) == t \in timer \/ Queued(t) \/ \E p \in Process : Carries(p, t)

IInv == TypeOK /\ RunShape /\ Located

\* Located, in the words the lemmas use.
LEMMA LocatedLeads ==
  /\ Located <=> \A t \in Task : Live(t) => Leads(t)
  /\ Located' <=> \A t \in Task : Live(t)' => Leads(t)'
BY DEF Located, Led, Leads, Queued, Carries

\* A publication, whatever comes of it: types are kept, and either the broker has what
\* was added or the process has a recovery probe.
LEMMA PublishAsKeeps ==
  ASSUME WakeupsAssumption, TypeOK, NEW p \in Process, NEW t \in Task, NEW ok \in BOOLEAN,
         NEW added \in SUBSET Job, queue \subseteq added, PublishAs(p, t, ok, added)
  PROVE  /\ queue' \subseteq Job /\ queue \subseteq queue'
         /\ probe' \in [Process -> Task \cup {None}]
         /\ timer' \subseteq Task
         /\ faults' \in 0..MaxFaults
         /\ \A u \in Task \ {t} : u \in timer \/ Queued(u) => u \in timer' \/ Queued(u)'
         /\ \A q \in Process : probe[q] # None => probe'[q] # None
         /\ queue' = added \/ probe'[p] # None
<1>1. None \notin Task
  BY DEF WakeupsAssumption
<1>2. CASE probe[p] # None /\ ~ok /\ UNCHANGED <<queue, probe, timer, faults>>
  BY <1>2 DEF TypeOK, Queued
<1>3. CASE probe[p] = None /\ up /\ ok
           /\ queue' = added /\ timer' = timer \ {t} /\ UNCHANGED <<probe, faults>>
  BY <1>3 DEF TypeOK, Queued
<1>4. CASE probe[p] = None /\ ~up /\ ~ok
           /\ probe' = [probe EXCEPT ![p] = t] /\ UNCHANGED <<queue, timer, faults>>
  BY <1>1, <1>4 DEF TypeOK, Queued
<1>5. CASE probe[p] = None /\ up /\ ~ok /\ FaultLeft
           /\ queue' = added /\ probe' = [probe EXCEPT ![p] = t] /\ UNCHANGED timer
  BY <1>1, <1>5 DEF TypeOK, Queued, FaultLeft, WakeupsAssumption
<1> QED
  BY <1>2, <1>3, <1>4, <1>5 DEF PublishAs

\* A job of the task is a job, and queues it.
LEMMA WithQueues ==
  ASSUME WakeupsAssumption, TypeOK, NEW t \in Task
  PROVE  With(t) \in SUBSET Job /\ queue \subseteq With(t) /\ \E j \in With(t) : j.task = t
<1> DEFINE w == [task |-> t, tries |-> Attempts]
<1>1. w \in Job /\ w.task = t
  BY DEF WakeupsAssumption, Job
<1>2. With(t) = queue \cup {w}
  BY DEF With
<1> QED
  BY <1>1, <1>2 DEF TypeOK

\* A publication under a name of its own.
LEMMA PublishKeeps ==
  ASSUME WakeupsAssumption, TypeOK, NEW p \in Process, NEW t \in Task, NEW ok \in BOOLEAN,
         Publish(p, t, ok)
  PROVE  /\ queue' \subseteq Job /\ queue \subseteq queue'
         /\ probe' \in [Process -> Task \cup {None}]
         /\ timer' \subseteq Task
         /\ faults' \in 0..MaxFaults
         /\ \A u \in Task \ {t} : u \in timer \/ Queued(u) => u \in timer' \/ Queued(u)'
         /\ \A q \in Process : probe[q] # None => probe'[q] # None
         /\ Queued(t)' \/ probe'[p] # None
BY PublishAsKeeps, WithQueues DEF Publish, Queued

\* A publication under the row's name: the broker has a new job, or kept one.
LEMMA RepublishKeeps ==
  ASSUME WakeupsAssumption, TypeOK, NEW p \in Process, NEW t \in Task, NEW ok \in BOOLEAN,
         NEW Q \in SUBSET Process, Republish(p, t, ok, Q)
  PROVE  /\ queue' \subseteq Job /\ queue \subseteq queue'
         /\ probe' \in [Process -> Task \cup {None}]
         /\ timer' \subseteq Task
         /\ faults' \in 0..MaxFaults
         /\ \A u \in Task \ {t} : u \in timer \/ Queued(u) => u \in timer' \/ Queued(u)'
         /\ \A q \in Process : probe[q] # None => probe'[q] # None
         /\ Queued(t)' \/ probe'[p] # None \/ \E q \in Q : Handling(q, t)
<1>1. CASE Publish(p, t, ok)
  BY <1>1, PublishKeeps
<1>2. CASE Kept(t, Q) /\ PublishAs(p, t, ok, queue)
  <2>1. queue \in SUBSET Job
    BY DEF TypeOK
  <2>2. /\ queue' \subseteq Job /\ queue \subseteq queue'
        /\ probe' \in [Process -> Task \cup {None}]
        /\ timer' \subseteq Task
        /\ faults' \in 0..MaxFaults
        /\ \A u \in Task \ {t} : u \in timer \/ Queued(u) => u \in timer' \/ Queued(u)'
        /\ \A q \in Process : probe[q] # None => probe'[q] # None
    BY <1>2, <2>1, PublishAsKeeps
  <2>3. Queued(t)' \/ \E q \in Q : Handling(q, t)
    BY <1>2, <2>2 DEF Kept, Queued
  <2> QED
    BY <2>2, <2>3
<1> QED
  BY <1>1, <1>2 DEF Republish

\* The handler goes on to another step of the same wake-up.
LEMMA HandlerGoesOn ==
  ASSUME NEW h \in Jobs, h.step # "idle",
         NEW s \in {"claim", "run", "drain", "ask", "fail"}
  PROVE  /\ h.job \in Job
         /\ [h EXCEPT !.step = s] \in Jobs
         /\ [h EXCEPT !.step = s].step = s
         /\ [h EXCEPT !.step = s].job = h.job
BY DEF Jobs, Idle

\* A request for a redrive is never lost, and a full one stays full.
LEMMA RequestedKeeps ==
  ASSUME NEW r \in Runs, r.phase = "none" => r = NoRun, NEW full \in BOOLEAN
  PROVE  LET n == Requested(r, full)
         IN  /\ n \in Runs /\ n.phase # "none"
             /\ full => n.rerun = "full" \/ (n.full /\ n.phase = "acquire")
             /\ r.rerun = "full" => n.rerun = "full"
             /\ r.full => n.full /\ n.phase = r.phase /\ n.left = r.left
<1> DEFINE n == Requested(r, full)
<1>1. CASE r.phase = "none"
  <2>1. n = [NoRun EXCEPT !.phase = "acquire", !.full = full]
    BY <1>1 DEF Requested
  <2>2. n = [phase |-> "acquire", full |-> full, left |-> {}, rerun |-> "no"]
    BY <2>1 DEF NoRun
  <2>3. r.rerun = "no" /\ r.full = FALSE
    BY <1>1 DEF NoRun
  <2> HIDE DEF n
  <2> QED
    BY <2>2, <2>3 DEF n, Runs, Mode
<1>2. CASE r.phase # "none"
  <2>1. n = [r EXCEPT !.rerun =
               IF full THEN "full" ELSE IF @ = "no" THEN "actionable" ELSE @]
    BY <1>2 DEF Requested
  <2> HIDE DEF n
  <2> QED
    BY <1>2, <2>1 DEF n, Runs, Mode
<1> QED
  BY <1>1, <1>2

LEMMA TypesUnfold ==
  /\ TypeOK <=>
       /\ row \in [Task -> {"none", "waiting", "due", "processing", "expired", "done"}]
       /\ holder \in [Task -> Process \cup {None}]
       /\ paused \in {"no", "finite", "indefinite"}
       /\ up \in BOOLEAN
       /\ queue \subseteq Job
       /\ alive \subseteq Process
       /\ owed \in [Process -> SUBSET Task]
       /\ probe \in [Process -> Task \cup {None}]
       /\ at \in [Process -> Jobs]
       /\ run \in [Process -> Runs]
       /\ retry \in [Process -> Retries]
       /\ timer \subseteq Task
       /\ faults \in 0..MaxFaults
  /\ TypeOK' <=>
       /\ row' \in [Task -> {"none", "waiting", "due", "processing", "expired", "done"}]
       /\ holder' \in [Task -> Process \cup {None}]
       /\ paused' \in {"no", "finite", "indefinite"}
       /\ up' \in BOOLEAN
       /\ queue' \subseteq Job
       /\ alive' \subseteq Process
       /\ owed' \in [Process -> SUBSET Task]
       /\ probe' \in [Process -> Task \cup {None}]
       /\ at' \in [Process -> Jobs]
       /\ run' \in [Process -> Runs]
       /\ retry' \in [Process -> Retries]
       /\ timer' \subseteq Task
       /\ faults' \in 0..MaxFaults
BY DEF TypeOK, Jobs, Runs, Retries

LEMMA InitHolds == ASSUME WakeupsAssumption, Init PROVE IInv
<1>1. Idle \in Jobs /\ NoRun \in Runs /\ NoRetry \in Retries
  BY DEF Jobs, NoRun, Runs, Mode, NoRetry, Retries
<1>2. TypeOK
  BY <1>1, TypesUnfold DEF Init, WakeupsAssumption
<1>3. RunShape
  BY DEF Init, RunShape
<1>4. Located
  BY DEF Init, Located, Live
<1> QED
  BY <1>2, <1>3, <1>4 DEF IInv

\* The steps that touch rows and publications.
LEMMA CommitKeeps ==
  ASSUME WakeupsAssumption, IInv, NEW p \in Process, NEW t \in Task, Commit(p, t)
  PROVE  IInv'
<1>1. TypeOK'
  BY TypesUnfold DEF IInv, Commit
<1>2. RunShape'
  BY DEF IInv, Commit, RunShape
<1>3. Located'
  <2> SUFFICES ASSUME NEW u \in Task, Live(u)' PROVE Leads(u)'
    BY LocatedLeads
  <2>1. CASE u = t
    BY <2>1 DEF IInv, TypeOK, Commit, Leads, Carries
  <2>2. CASE u # t
    <3>1. Leads(u)
      BY <2>2, LocatedLeads DEF IInv, TypeOK, Commit, Live
    <3> QED
      BY <2>2, <3>1 DEF IInv, TypeOK, Commit, Leads, Queued, Carries, Handling, RedriveAhead, RetryAhead
  <2> QED
    BY <2>1, <2>2
<1> QED
  BY <1>1, <1>2, <1>3 DEF IInv

LEMMA AfterCommitKeeps ==
  ASSUME WakeupsAssumption, IInv, NEW p \in Process, NEW t \in Task, AfterCommit(p, t)
  PROVE  IInv'
<1> PICK ok \in BOOLEAN : Publish(p, t, ok)
  BY DEF AfterCommit
<1>0. TypeOK
  BY DEF IInv
<1>1. TypeOK'
  BY <1>0, PublishKeeps DEF AfterCommit, TypeOK, Job, Idle, Mode
<1>2. RunShape'
  BY DEF IInv, AfterCommit, RunShape
<1>3. Located'
  <2> SUFFICES ASSUME NEW u \in Task, Live(u)' PROVE Leads(u)'
    BY LocatedLeads
  <2>1. Leads(u)
    BY LocatedLeads DEF IInv, AfterCommit, Live
  <2>2. CASE u # t /\ (u \in timer \/ Queued(u))
    BY <1>0, <2>2, PublishKeeps DEF Leads
  <2>3. ASSUME NEW q \in Process, Carries(q, u), u # t PROVE Carries(q, u)'
    BY <1>0, <2>3, PublishKeeps DEF TypeOK, AfterCommit, Carries, Handling, RedriveAhead, RetryAhead
  <2>4. Queued(t)' \/ Carries(p, t)'
    BY <1>0, PublishKeeps DEF Carries
  <2> QED
    BY <2>1, <2>2, <2>3, <2>4 DEF Leads
<1> QED
  BY <1>1, <1>2, <1>3 DEF IInv

LEMMA RecoverKeeps ==
  ASSUME WakeupsAssumption, IInv, NEW p \in Process, Recover(p)
  PROVE  IInv'
<1>0. TypeOK /\ run[p] \in Runs /\ (run[p].phase = "none" => run[p] = NoRun)
  BY TypesUnfold DEF IInv, RunShape
<1> DEFINE n == Requested(run[p], TRUE)
<1>1. /\ n \in Runs /\ n.phase # "none"
      /\ n.rerun = "full" \/ (n.full /\ n.phase = "acquire")
  BY <1>0, RequestedKeeps
<1>2. run' = [run EXCEPT ![p] = n] /\ run'[p] = n
  BY <1>0 DEF Recover, TypeOK
<1> HIDE DEF n
<1>3. probe[p] \in Task /\ queue' \subseteq Job
  BY <1>0, WithQueues DEF TypeOK, Recover
<1>4. TypeOK'
  BY <1>0, <1>1, <1>2, <1>3, TypesUnfold DEF Recover
<1>5. RunShape'
  BY <1>0, <1>1, <1>2 DEF IInv, RunShape, TypeOK, Recover
<1>6. Located'
  BY <1>1, <1>2, LocatedLeads DEF Leads, Carries, RedriveAhead
<1> QED
  BY <1>4, <1>5, <1>6 DEF IInv

\* The steps of the handler.
LEMMA DeliverKeeps ==
  ASSUME WakeupsAssumption, IInv, NEW p \in Process, NEW j \in queue, Deliver(p, j)
  PROVE  IInv'
<1>0. TypeOK /\ j \in Job /\ j.task \in Task
  BY DEF IInv, TypeOK, Job
<1>1. at'[p] = [step |-> "claim", job |-> j] /\ at'[p] \in Jobs /\ \A q \in Process \ {p} : at'[q] = at[q]
  BY <1>0 DEF Deliver, TypeOK, Jobs
<1>2. TypeOK'
  BY <1>0, <1>1, TypesUnfold DEF Deliver
<1>3. RunShape'
  BY DEF IInv, Deliver, RunShape
<1>4. Located'
  <2> SUFFICES ASSUME NEW u \in Task, Live(u)' PROVE Leads(u)'
    BY LocatedLeads
  <2>1. Leads(u)
    BY LocatedLeads DEF IInv, Deliver, Live
  <2>2. CASE u = j.task
    BY <1>1, <2>2 DEF Leads, Carries, Handling
  <2>3. ASSUME u # j.task, Queued(u) PROVE Queued(u)'
    BY <2>3 DEF Deliver, Queued
  <2>4. ASSUME NEW q \in Process, Carries(q, u) PROVE Carries(q, u)'
    BY <1>1, <2>4 DEF Deliver, Carries, Handling, RedriveAhead, RetryAhead, Idle
  <2> QED
    BY <2>1, <2>2, <2>3, <2>4 DEF Leads, Deliver
<1> QED
  BY <1>2, <1>3, <1>4 DEF IInv

LEMMA ClaimKeeps ==
  ASSUME WakeupsAssumption, IInv, NEW p \in Process, ClaimTask(p)
  PROVE  IInv'
<1> DEFINE t == at[p].job.task
<1>0. TypeOK /\ at[p] \in Jobs /\ at[p].step # "idle" /\ at[p].job \in Job /\ t \in Task
  BY TypesUnfold DEF IInv, ClaimTask, Jobs, Idle, Job
<1>1. PICK s \in {"run", "ask", "fail"} :
        /\ at' = [at EXCEPT ![p].step = s]
        /\ IF s = "run" THEN Taken(p, t) ELSE UNCHANGED durable
        /\ faults' \in 0..MaxFaults
  BY <1>0 DEF ClaimTask, NoFault, FaultLeft, TypeOK, WakeupsAssumption
<1>2. /\ at'[p] \in Jobs /\ at'[p].step = s /\ at'[p].job = at[p].job
      /\ \A q \in Process \ {p} : at'[q] = at[q]
  <2>1. at'[p] = [at[p] EXCEPT !.step = s] /\ \A q \in Process \ {p} : at'[q] = at[q]
    BY <1>0, <1>1 DEF TypeOK
  <2>2. s \in {"claim", "run", "drain", "ask", "fail"}
    OBVIOUS
  <2>3. /\ [at[p] EXCEPT !.step = s] \in Jobs
        /\ [at[p] EXCEPT !.step = s].step = s
        /\ [at[p] EXCEPT !.step = s].job = at[p].job
    BY <1>0, <2>2, HandlerGoesOn
  <2> QED
    BY <2>1, <2>3
<1>3. at' \in [Process -> Jobs]
  BY <1>0, <1>1, <1>2, TypesUnfold
<1>4. /\ row' \in [Task -> {"none", "waiting", "due", "processing", "expired", "done"}]
      /\ holder' \in [Task -> Process \cup {None}]
      /\ \A u \in Task \ {t} : row'[u] = row[u] /\ holder'[u] = holder[u]
      /\ s = "run" => holder'[t] = p
      /\ s # "run" => row' = row /\ holder' = holder
  <2> HIDE DEF t
  <2>1. CASE s = "run"
    <3>1. Taken(p, t)
      BY <1>1, <2>1
    <3>2. /\ row' = [row EXCEPT ![t] = "processing"] /\ holder' = [holder EXCEPT ![t] = p]
          /\ row \in [Task -> {"none", "waiting", "due", "processing", "expired", "done"}]
          /\ holder \in [Task -> Process \cup {None}]
      BY <1>0, <3>1 DEF Taken, TypeOK
    <3> QED
      BY <1>0, <2>1, <3>2
  <2>2. CASE s # "run"
    BY <1>0, <1>1, <2>2 DEF durable, TypeOK
  <2> QED
    BY <2>1, <2>2
<1>5. TypeOK'
  BY <1>0, <1>1, <1>3, <1>4, TypesUnfold DEF ClaimTask
<1>6. RunShape'
  BY DEF IInv, ClaimTask, RunShape
<1>7. Located'
  <2> HIDE DEF t
  <2> SUFFICES ASSUME NEW u \in Task, Live(u)' PROVE Leads(u)'
    BY LocatedLeads
  <2>1. CASE u = t
    BY <1>2, <1>4, <2>1 DEF t, Leads, Carries, Handling
  <2>2. CASE u # t
    <3>1. Leads(u)
      BY <1>4, <2>2, LocatedLeads DEF IInv, Live
    <3>2. ASSUME NEW q \in Process, Carries(q, u) PROVE Carries(q, u)'
      BY <1>2, <1>4, <2>2, <3>2 DEF t, ClaimTask, Carries, Handling, RedriveAhead, RetryAhead
    <3> QED
      BY <3>1, <3>2 DEF Leads, ClaimTask, Queued
  <2> QED
    BY <2>1, <2>2
<1> QED
  BY <1>5, <1>6, <1>7 DEF IInv

LEMMA DrainKeeps ==
  ASSUME WakeupsAssumption, IInv, NEW p \in Process, Drain(p)
  PROVE  IInv'
<1>0. TypeOK /\ at[p] \in Jobs /\ at[p].step = "drain"
  BY TypesUnfold DEF IInv, Drain
<1>1. at'[p] \in Jobs /\ \A q \in Process \ {p} : at'[q] = at[q]
  <2>1. /\ at'[p] = [at[p] EXCEPT !.step = "run"] \/ at'[p] = Idle
        /\ \A q \in Process \ {p} : at'[q] = at[q]
    BY <1>0 DEF Drain, TypeOK
  <2>2. Idle \in Jobs
    BY DEF Jobs
  <2> QED
    BY <1>0, <2>1, <2>2, HandlerGoesOn, ZenonT(40)
<1>2. at' \in [Process -> Jobs]
  BY <1>0, <1>1, TypesUnfold DEF Drain
<1>3. /\ row' \in [Task -> {"none", "waiting", "due", "processing", "expired", "done"}]
      /\ holder' \in [Task -> Process \cup {None}]
      /\ \A u \in Task : (row'[u] = row[u] /\ holder'[u] = holder[u]) \/ holder'[u] = p
  <2>1. CASE \E t \in Task : Taken(p, t)
    BY <1>0, <2>1 DEF Taken, TypeOK
  <2>2. CASE UNCHANGED durable
    BY <1>0, <2>2 DEF durable, TypeOK
  <2> QED
    BY <2>1, <2>2 DEF Drain
<1>4. TypeOK'
  BY <1>0, <1>2, <1>3, TypesUnfold DEF Drain
<1>5. RunShape'
  BY DEF IInv, Drain, RunShape
<1>6. Located'
  <2> SUFFICES ASSUME NEW u \in Task, Live(u)' PROVE Leads(u)'
    BY LocatedLeads
  <2>1. CASE holder'[u] = p
    BY <2>1 DEF Leads, Carries
  <2>2. CASE row'[u] = row[u] /\ holder'[u] = holder[u]
    <3>1. Leads(u)
      BY <2>2, LocatedLeads DEF IInv, Live
    <3>2. ASSUME NEW q \in Process, Carries(q, u) PROVE Carries(q, u)'
      BY <1>0, <1>1, <2>2, <3>2 DEF Drain, Carries, Handling, RedriveAhead, RetryAhead
    <3> QED
      BY <3>1, <3>2 DEF Leads, Drain, Queued
  <2> QED
    BY <1>3, <2>1, <2>2
<1> QED
  BY <1>4, <1>5, <1>6 DEF IInv

LEMMA RunRowKeeps ==
  ASSUME WakeupsAssumption, IInv, NEW p \in Process, NEW t \in Task,
         at[p].step = "run", RunRow(p, t)
  PROVE  IInv'
<1>0. TypeOK /\ at[p] \in Jobs
  BY TypesUnfold DEF IInv
<1>1. /\ at' \in [Process -> Jobs]
      /\ \A q \in Process \ {p} : at'[q] = at[q]
  <2>1. at' = [at EXCEPT ![p] = [at[p] EXCEPT !.step = "drain"]]
    BY <1>0 DEF RunRow, TypeOK
  <2>2. [at[p] EXCEPT !.step = "drain"] \in Jobs
    BY <1>0, HandlerGoesOn
  <2> QED
    BY <1>0, <2>1, <2>2, TypesUnfold
<1>2. /\ faults' \in 0..MaxFaults
      /\ row' \in [Task -> {"none", "waiting", "due", "processing", "expired", "done"}]
      /\ holder' = [holder EXCEPT ![t] = None]
      /\ owed' \in [Process -> SUBSET Task]
      /\ \A q \in Process : owed[q] \subseteq owed'[q]
      /\ \A u \in Task \ {t} : row'[u] = row[u]
      /\ row'[t] = "done" \/ t \in owed'[p]
  <2>1. CASE row' = [row EXCEPT ![t] = "done"] /\ NoFault /\ UNCHANGED owed
    BY <1>0, <2>1 DEF RunRow, NoFault, TypeOK
  <2>2. CASE /\ FaultLeft
             /\ row' = [row EXCEPT ![t] = "waiting"]
             /\ owed' = [owed EXCEPT ![p] = @ \cup {t}]
    BY <1>0, <2>2 DEF RunRow, FaultLeft, TypeOK, WakeupsAssumption
  <2> QED
    BY <2>1, <2>2 DEF RunRow
<1>3. TypeOK'
  BY <1>0, <1>1, <1>2, TypesUnfold DEF RunRow
<1>4. RunShape'
  BY DEF IInv, RunRow, RunShape
<1>5. Located'
  <2> SUFFICES ASSUME NEW u \in Task, Live(u)' PROVE Leads(u)'
    BY LocatedLeads
  <2>1. CASE u = t
    BY <1>2, <2>1 DEF Live, Leads, Carries
  <2>2. CASE u # t
    <3>1. Leads(u)
      BY <1>2, <2>2, LocatedLeads DEF IInv, Live
    <3>2. ASSUME NEW q \in Process, Carries(q, u) PROVE Carries(q, u)'
      BY <1>0, <1>1, <1>2, <2>2, <3>2 DEF TypeOK, RunRow, Carries, Handling, RedriveAhead, RetryAhead
    <3> QED
      BY <3>1, <3>2 DEF Leads, RunRow, Queued
  <2> QED
    BY <2>1, <2>2
<1> QED
  BY <1>3, <1>4, <1>5 DEF IInv

LEMMA AskKeeps ==
  ASSUME WakeupsAssumption, IInv, NEW p \in Process, Ask(p)
  PROVE  IInv'
<1>0. TypeOK /\ at[p] \in Jobs /\ at[p].step # "idle" /\ at[p].job.task \in Task
  BY TypesUnfold DEF IInv, Ask, Jobs, Idle, Job
<1> PICK t \in Task : t = at[p].job.task
  BY <1>0
<1>1. /\ at' \in [Process -> Jobs]
      /\ \A q \in Process \ {p} : at'[q] = at[q]
  <2>1. PICK h \in Jobs : at' = [at EXCEPT ![p] = h]
    <3>1. Idle \in Jobs
      BY DEF Jobs
    <3>2. [at[p] EXCEPT !.step = "fail"] \in Jobs
      BY <1>0, HandlerGoesOn
    <3>3. at' = [at EXCEPT ![p] = Idle] \/ at' = [at EXCEPT ![p] = [at[p] EXCEPT !.step = "fail"]]
      BY <1>0 DEF Ask, TypeOK
    <3> QED
      BY <3>1, <3>2, <3>3
  <2> QED
    BY <1>0, <2>1, TypesUnfold
<1>2. /\ queue' \subseteq Job
      /\ probe' \in [Process -> Task \cup {None}]
      /\ timer' \subseteq Task
      /\ faults' \in 0..MaxFaults
      /\ \A u \in Task \ {t} : u \in timer \/ Queued(u) => u \in timer' \/ Queued(u)'
      /\ \A q \in Process : probe[q] # None => probe'[q] # None
      /\ Live(t) => \/ t \in timer' \/ Queued(t)' \/ probe'[p] # None
                    \/ \E q \in Process \ {p} : Handling(q, t)
  <2>1. CASE ~Live(t) /\ UNCHANGED <<queue, probe, timer, faults>>
    BY <1>0, <2>1 DEF TypeOK, Queued
  <2>2. CASE timer' = timer \cup {t} /\ UNCHANGED <<queue, probe, faults>>
    BY <1>0, <2>2 DEF TypeOK, Queued
  <2>3. CASE \E ok \in BOOLEAN : Republish(p, t, ok, Process \ {p})
    BY <1>0, <2>3, RepublishKeeps
  <2> QED
    BY <2>1, <2>2, <2>3 DEF Ask
<1>3. TypeOK'
  BY <1>0, <1>1, <1>2, TypesUnfold DEF Ask
<1>4. RunShape'
  BY DEF IInv, Ask, RunShape
<1>5. Located'
  <2> SUFFICES ASSUME NEW u \in Task, Live(u)' PROVE Leads(u)'
    BY LocatedLeads
  <2>1. Live(u) /\ Leads(u)
    BY LocatedLeads DEF IInv, Ask, Live
  <2>2. CASE u = t
    <3>1. \A q \in Process \ {p} : Handling(q, t) => Handling(q, t)'
      BY <1>1 DEF Handling
    <3> QED
      BY <1>2, <2>1, <2>2, <3>1 DEF Leads, Carries
  <2>3. ASSUME u # t, NEW q \in Process, Carries(q, u) PROVE Carries(q, u)'
    BY <1>1, <1>2, <2>3 DEF Ask, Carries, Handling, RedriveAhead, RetryAhead
  <2> QED
    BY <1>2, <2>1, <2>2, <2>3 DEF Leads
<1> QED
  BY <1>3, <1>4, <1>5 DEF IInv

LEMMA JobFailsKeeps ==
  ASSUME WakeupsAssumption, IInv, NEW p \in Process, JobFails(p)
  PROVE  IInv'
<1>0. TypeOK /\ at[p] \in Jobs /\ at[p].step # "idle" /\ at[p].job \in Job
  BY TypesUnfold DEF IInv, JobFails, Jobs, Idle
<1> PICK j \in Job : j = at[p].job
  BY <1>0
<1> PICK t \in Task : t = j.task
  BY DEF Job
<1>1. /\ at' \in [Process -> Jobs]
      /\ \A q \in Process \ {p} : at'[q] = at[q]
  <2>1. Idle \in Jobs
    BY DEF Jobs
  <2> QED
    BY <1>0, <2>1, TypesUnfold DEF JobFails
<1>2. /\ queue' \subseteq Job
      /\ probe' \in [Process -> Task \cup {None}]
      /\ timer' \subseteq Task
      /\ faults' \in 0..MaxFaults
      /\ \A u \in Task \ {t} : u \in timer \/ Queued(u) => u \in timer' \/ Queued(u)'
      /\ \A q \in Process : probe[q] # None => probe'[q] # None
      /\ Queued(t)' \/ probe'[p] # None
  <2>1. CASE /\ j.tries > 1
             /\ queue' = queue \cup {[j EXCEPT !.tries = @ - 1]}
             /\ UNCHANGED <<probe, timer, faults>>
    <3>1. [j EXCEPT !.tries = @ - 1] \in Job /\ [j EXCEPT !.tries = @ - 1].task = t
      BY <1>0, <2>1 DEF Job, WakeupsAssumption
    <3> QED
      BY <1>0, <2>1, <3>1 DEF TypeOK, Queued
  <2>2. CASE \E ok \in BOOLEAN : Publish(p, t, ok)
    BY <1>0, <2>2, PublishKeeps
  <2> QED
    BY <2>1, <2>2 DEF JobFails
<1>3. TypeOK'
  BY <1>0, <1>1, <1>2, TypesUnfold DEF JobFails
<1>4. RunShape'
  BY DEF IInv, JobFails, RunShape
<1>5. Located'
  <2> SUFFICES ASSUME NEW u \in Task, Live(u)' PROVE Leads(u)'
    BY LocatedLeads
  <2>1. Leads(u)
    BY LocatedLeads DEF IInv, JobFails, Live
  <2>2. CASE u = t
    BY <1>2, <2>2 DEF Leads, Carries
  <2>3. ASSUME u # t, NEW q \in Process, Carries(q, u) PROVE Carries(q, u)'
    BY <1>1, <1>2, <2>3 DEF JobFails, Carries, Handling, RedriveAhead, RetryAhead
  <2> QED
    BY <1>2, <2>1, <2>2, <2>3 DEF Leads
<1> QED
  BY <1>3, <1>4, <1>5 DEF IInv

\* The steps of the redrive.
LEMMA ScanKeeps ==
  ASSUME WakeupsAssumption, IInv, NEW p \in Process, Scan(p)
  PROVE  IInv'
<1>0. TypeOK /\ run[p] \in Runs /\ run[p].phase = "acquire"
  BY TypesUnfold DEF IInv, Scan
<1>1. CASE \E q \in Process : Scanning(q)
  <2> PICK n : n = [NoRun EXCEPT !.phase = "acquire", !.full = run[p].full \/ run[p].rerun = "full"]
    OBVIOUS
  <2>1. /\ n \in Runs /\ n.phase = "acquire"
        /\ run[p].full \/ run[p].rerun = "full" => n.full
    BY <1>0 DEF NoRun, Runs, Mode
  <2>2. run' = [run EXCEPT ![p] = n] /\ UNCHANGED timer
    BY <1>1 DEF Scan
  <2>3. TypeOK'
    BY <1>0, <2>1, <2>2, TypesUnfold DEF Scan
  <2>4. RunShape'
    BY <1>0, <2>1, <2>2 DEF IInv, RunShape, TypeOK, Scan
  <2>5. Located'
    <3> SUFFICES ASSUME NEW u \in Task, Live(u)' PROVE Leads(u)'
      BY LocatedLeads
    <3>1. Leads(u)
      BY LocatedLeads DEF IInv, Scan, Live
    <3>2. ASSUME NEW q \in Process, Carries(q, u) PROVE Carries(q, u)'
      BY <1>0, <2>1, <2>2, <3>2 DEF TypeOK, Scan, Carries, Handling, RedriveAhead, RetryAhead
    <3> QED
      BY <2>2, <3>1, <3>2 DEF Leads, Scan, Queued
  <2> QED
    BY <2>3, <2>4, <2>5 DEF IInv
<1>2. CASE ~ \E q \in Process : Scanning(q)
  <2> PICK n : n = [run[p] EXCEPT !.phase = "scan", !.left = Candidates(run[p].full)]
    OBVIOUS
  <2>1. /\ n \in Runs /\ n.phase = "scan" /\ n.full = run[p].full
        /\ n.rerun = run[p].rerun /\ n.left = Candidates(run[p].full)
    BY <1>0 DEF Runs, Candidates
  <2>2. /\ run' = [run EXCEPT ![p] = n]
        /\ timer' = timer \cup {t \in Task : Live(t) /\ paused # "no"}
    BY <1>0, <1>2 DEF Scan, TypeOK
  <2>3. TypeOK'
    BY <1>0, <2>1, <2>2, TypesUnfold DEF Scan
  <2>4. RunShape'
    BY <1>0, <2>1, <2>2 DEF IInv, RunShape, TypeOK, Scan
  <2>5. Located'
    <3> SUFFICES ASSUME NEW u \in Task, Live(u)' PROVE Leads(u)'
      BY LocatedLeads
    <3>1. Live(u) /\ Leads(u)
      BY LocatedLeads DEF IInv, Scan, Live
    <3>2. CASE paused # "no"
      BY <2>2, <3>1, <3>2 DEF Leads
    <3>3. ASSUME paused = "no", NEW q \in Process, Carries(q, u) PROVE Carries(q, u)'
      BY <1>0, <2>1, <2>2, <3>1, <3>3
      DEF TypeOK, Scan, Carries, Handling, RedriveAhead, RetryAhead, Candidates
    <3> QED
      BY <2>2, <3>1, <3>2, <3>3 DEF Leads, Scan, Queued
  <2> QED
    BY <2>3, <2>4, <2>5 DEF IInv
<1> QED
  BY <1>1, <1>2

LEMMA PublishCandidateKeeps ==
  ASSUME WakeupsAssumption, IInv, NEW p \in Process, NEW t \in Task, PublishCandidate(p, t)
  PROVE  IInv'
<1> PICK ok \in BOOLEAN : Republish(p, t, ok, Process)
  BY DEF PublishCandidate
<1>0. TypeOK /\ run[p] \in Runs /\ run[p].phase = "scan"
  BY TypesUnfold DEF IInv, PublishCandidate, Scanning
<1> PICK n : n = [run[p] EXCEPT !.left = @ \ {t}]
  OBVIOUS
<1>1. /\ n \in Runs /\ n.phase = "scan" /\ n.full = run[p].full
      /\ n.rerun = run[p].rerun /\ n.left = run[p].left \ {t}
  BY <1>0 DEF Runs
<1>2. run' = [run EXCEPT ![p] = n]
  BY <1>0 DEF PublishCandidate, TypeOK
<1>3. TypeOK'
  BY <1>0, <1>1, <1>2, RepublishKeeps, TypesUnfold DEF PublishCandidate
<1>4. RunShape'
  BY <1>0, <1>1, <1>2 DEF IInv, RunShape, TypeOK, PublishCandidate
<1>5. Located'
  <2> SUFFICES ASSUME NEW u \in Task, Live(u)' PROVE Leads(u)'
    BY LocatedLeads
  <2>1. Leads(u)
    BY LocatedLeads DEF IInv, PublishCandidate, Live
  <2>2. CASE u # t /\ (u \in timer \/ Queued(u))
    BY <1>0, <2>2, RepublishKeeps DEF Leads
  <2>3. ASSUME NEW q \in Process, Carries(q, u), u # t PROVE Carries(q, u)'
    <3>1. probe[q] # None => probe'[q] # None
      BY <1>0, RepublishKeeps
    <3> QED
      BY <1>0, <1>1, <1>2, <2>3, <3>1 DEF TypeOK, PublishCandidate, Carries, Handling, RedriveAhead, RetryAhead
  <2>4. Queued(t)' \/ \E q \in Process : Carries(q, t)'
    <3>1. \A q \in Process : Handling(q, t) => Handling(q, t)'
      BY DEF PublishCandidate, Handling
    <3> QED
      BY <1>0, <3>1, RepublishKeeps DEF Carries
  <2> QED
    BY <2>1, <2>2, <2>3, <2>4 DEF Leads
<1> QED
  BY <1>3, <1>4, <1>5 DEF IInv

\* What was asked for during a run comes after it.
LEMMA NextRunKeeps ==
  ASSUME NEW r \in Runs
  PROVE  LET n == NextRun(r)
         IN  /\ n \in Runs /\ (n.phase = "none" => n = NoRun)
             /\ r.rerun = "full" => n.rerun = "full" \/ (n.full /\ n.phase = "acquire")
<1>1. NoRun \in Runs
  BY DEF NoRun, Runs, Mode
<1> QED
  BY <1>1, RequestedKeeps DEF NextRun

LEMMA ScanEndsKeeps ==
  ASSUME WakeupsAssumption, IInv, NEW p \in Process, ScanEnds(p)
  PROVE  IInv'
<1>0. TypeOK /\ run[p] \in Runs /\ run[p].phase = "scan" /\ run[p].left = {}
  BY TypesUnfold DEF IInv, ScanEnds, Scanning
<1> PICK n : n = NextRun(run[p])
  OBVIOUS
<1>2. /\ n \in Runs /\ (n.phase = "none" => n = NoRun)
      /\ run[p].rerun = "full" => n.rerun = "full" \/ (n.full /\ n.phase = "acquire")
  BY <1>0, NextRunKeeps
<1>3. run' = [run EXCEPT ![p] = n]
  BY <1>0 DEF ScanEnds, TypeOK
<1>4. TypeOK'
  BY <1>0, <1>2, <1>3, TypesUnfold DEF ScanEnds
<1>5. RunShape'
  BY <1>0, <1>2, <1>3 DEF IInv, RunShape, TypeOK, ScanEnds
<1>6. Located'
  <2> SUFFICES ASSUME NEW u \in Task, Live(u)' PROVE Leads(u)'
    BY LocatedLeads
  <2>1. Leads(u)
    BY LocatedLeads DEF IInv, ScanEnds, Live
  <2>2. ASSUME NEW q \in Process, Carries(q, u) PROVE Carries(q, u)'
    BY <1>0, <1>2, <1>3, <2>2 DEF TypeOK, ScanEnds, Carries, Handling, RedriveAhead, RetryAhead
  <2> QED
    BY <2>1, <2>2 DEF Leads, ScanEnds, Queued
<1> QED
  BY <1>4, <1>5, <1>6 DEF IInv

\* What loses its last way to a row hands the row to the timer.
LEMMA LeftBehindLocates ==
  ASSUME timer' = timer \cup LeftBehind(run', retry'),
         UNCHANGED <<row, holder, queue, alive, owed, probe, at>>
  PROVE  Located'
<1> SUFFICES ASSUME NEW u \in Task, Live(u)', ~Led(u, run', retry') PROVE u \in timer'
  BY DEF Located, Led, Handling
<1> QED
  BY DEF LeftBehind, Live

LEMMA DroppedKeeps ==
  ASSUME WakeupsAssumption, IInv, NEW p \in Process, Dropped(p)
  PROVE  IInv'
<1>0. TypeOK /\ run[p] \in Runs
  BY TypesUnfold DEF IInv
<1> PICK n : n = NextRun(run[p])
  OBVIOUS
<1>1. n \in Runs /\ (n.phase = "none" => n = NoRun)
  BY <1>0, NextRunKeeps
<1>2. /\ run' = [run EXCEPT ![p] = n]
      /\ UNCHANGED <<row, holder, paused, up, queue, alive, owed, probe, at, retry>>
  BY DEF Dropped
<1>3. timer' \subseteq Task
  <2>1. timer' = timer \cup LeftBehind(run', retry)
    BY DEF Dropped
  <2> QED
    BY <1>0, <2>1 DEF LeftBehind, TypeOK
<1>4. faults' \in 0..MaxFaults
  BY <1>0 DEF Dropped, FaultLeft, TypeOK, WakeupsAssumption
<1>5. TypeOK'
  BY <1>0, <1>1, <1>2, <1>3, <1>4, TypesUnfold
<1>6. RunShape'
  BY <1>0, <1>1, <1>2 DEF IInv, RunShape, TypeOK
<1>7. Located'
  BY <1>2, LeftBehindLocates DEF Dropped
<1> QED
  BY <1>5, <1>6, <1>7 DEF IInv

\* A request for a full retry puts every row ahead of it; any other changes nothing.
LEMMA ScheduleRetryKeeps ==
  ASSUME NEW y \in Retries, y.phase = "none" => y = NoRetry, NEW full \in BOOLEAN
  PROVE  LET n == ScheduleRetry(y, full)
         IN  /\ n \in Retries /\ n.phase # "none"
             /\ full => \A u \in Task : RetryAhead(n, u)
             /\ \A u \in Task : RetryAhead(y, u) => RetryAhead(n, u)
<1> DEFINE n == ScheduleRetry(y, full)
<1>1. CASE y.phase = "none"
  <2>1. n = [phase |-> "wait", full |-> full, now |-> FALSE, left |-> {}]
    BY <1>1 DEF ScheduleRetry, NoRetry
  <2>2. ~y.full
    BY <1>1 DEF NoRetry
  <2> HIDE DEF n
  <2> QED
    BY <2>1, <2>2 DEF n, Retries, RetryAhead
<1>2. CASE y.phase # "none"
  <2>1. n = [y EXCEPT !.full = @ \/ full, !.now = @ /\ ~full]
    BY <1>2 DEF ScheduleRetry
  <2>2. /\ n.phase = y.phase /\ n.left = y.left
        /\ n.full = (y.full \/ full) /\ n.now = (y.now /\ ~full)
    BY <2>1 DEF Retries
  <2>3. n \in Retries
    BY <2>1 DEF Retries
  <2> HIDE DEF n
  <2>4. full => n.full /\ ~n.now
    BY <2>2
  <2>5. ~full => n.full = y.full /\ n.now = y.now
    BY <2>2 DEF Retries
  <2> QED
    BY <1>2, <2>2, <2>3, <2>4, <2>5 DEF n, RetryAhead
<1> QED
  BY <1>1, <1>2

\* A full scan that fails becomes a full retry.
LEMMA ScanFailsKeeps ==
  ASSUME WakeupsAssumption, IInv, NEW p \in Process, ScanFails(p)
  PROVE  IInv'
<1>0. /\ TypeOK /\ run[p] \in Runs /\ retry[p] \in Retries /\ run[p].phase # "none"
      /\ retry[p].phase = "none" => retry[p] = NoRetry
  BY TypesUnfold DEF IInv, ScanFails, Scanning, RunShape
<1> PICK n : n = [run[p] EXCEPT !.phase = "scan", !.left = {}]
  OBVIOUS
<1> PICK y : y = ScheduleRetry(retry[p], run[p].full)
  OBVIOUS
<1>1. n \in Runs /\ n.phase = "scan" /\ n.full = run[p].full /\ n.rerun = run[p].rerun
  BY <1>0 DEF Runs
<1>2. /\ y \in Retries /\ y.phase # "none"
      /\ run[p].full => \A u \in Task : RetryAhead(y, u)
      /\ \A u \in Task : RetryAhead(retry[p], u) => RetryAhead(y, u)
  BY <1>0, ScheduleRetryKeeps DEF Runs
<1>3. run' = [run EXCEPT ![p] = n] /\ retry' = [retry EXCEPT ![p] = y]
  BY <1>0 DEF ScanFails, TypeOK
<1>4. faults' \in 0..MaxFaults
  BY <1>0 DEF ScanFails, FaultLeft, TypeOK, WakeupsAssumption
<1>5. TypeOK'
  BY <1>0, <1>1, <1>2, <1>3, <1>4, TypesUnfold DEF ScanFails
<1>6. RunShape'
  BY <1>0, <1>1, <1>2, <1>3 DEF IInv, RunShape, TypeOK
<1>7. Located'
  <2> SUFFICES ASSUME NEW u \in Task, Live(u)' PROVE Leads(u)'
    BY LocatedLeads
  <2>1. Leads(u)
    BY LocatedLeads DEF IInv, ScanFails, Live
  <2>2. ASSUME NEW q \in Process, Carries(q, u) PROVE Carries(q, u)'
    <3>1. RedriveAhead(run[q], u) => RedriveAhead(run'[q], u) \/ RetryAhead(retry'[q], u)
      BY <1>0, <1>1, <1>2, <1>3 DEF TypeOK, RedriveAhead
    <3>2. RetryAhead(retry[q], u) => RetryAhead(retry'[q], u)
      BY <1>0, <1>2, <1>3 DEF TypeOK
    <3> QED
      BY <2>2, <3>1, <3>2 DEF ScanFails, Carries, Handling
  <2> QED
    BY <2>1, <2>2 DEF Leads, ScanFails, Queued
<1> QED
  BY <1>5, <1>6, <1>7 DEF IInv

\* The steps of the retry.
LEMMA RetryScanKeeps ==
  ASSUME WakeupsAssumption, IInv, NEW p \in Process, RetryScan(p)
  PROVE  IInv'
<1>0. TypeOK /\ retry[p] \in Retries /\ retry[p].phase = "wait"
  BY TypesUnfold DEF IInv, RetryScan
<1> PICK y : y = [retry[p] EXCEPT
       !.phase = "scan", !.now = retry[p].full, !.left = Candidates(retry[p].full)]
  OBVIOUS
<1>1. /\ y \in Retries /\ y.phase = "scan" /\ y.full = retry[p].full
      /\ y.left = Candidates(retry[p].full)
  BY <1>0 DEF Retries, Candidates
<1>2. /\ retry' = [retry EXCEPT ![p] = y]
      /\ timer' = timer \cup {t \in Task : Live(t) /\ paused # "no"}
  BY <1>0 DEF RetryScan, TypeOK
<1>3. TypeOK'
  BY <1>0, <1>1, <1>2, TypesUnfold DEF RetryScan
<1>4. RunShape'
  BY <1>0, <1>1, <1>2 DEF IInv, RunShape, TypeOK, RetryScan
<1>5. Located'
  <2> SUFFICES ASSUME NEW u \in Task, Live(u)' PROVE Leads(u)'
    BY LocatedLeads
  <2>1. Live(u) /\ Leads(u)
    BY LocatedLeads DEF IInv, RetryScan, Live
  <2>2. CASE paused # "no"
    BY <1>2, <2>1, <2>2 DEF Leads
  <2>3. ASSUME paused = "no", NEW q \in Process, Carries(q, u) PROVE Carries(q, u)'
    BY <1>0, <1>1, <1>2, <2>1, <2>3
    DEF TypeOK, RetryScan, Carries, Handling, RedriveAhead, RetryAhead, Candidates
  <2> QED
    BY <1>2, <2>1, <2>2, <2>3 DEF Leads, RetryScan, Queued
<1> QED
  BY <1>3, <1>4, <1>5 DEF IInv

LEMMA RetryPublishKeeps ==
  ASSUME WakeupsAssumption, IInv, NEW p \in Process, NEW t \in Task, RetryPublish(p, t)
  PROVE  IInv'
<1> PICK ok \in BOOLEAN : Republish(p, t, ok, Process)
  BY DEF RetryPublish
<1>0. TypeOK /\ retry[p] \in Retries /\ retry[p].phase = "scan"
  BY TypesUnfold DEF IInv, RetryPublish
<1> PICK y : y = [retry[p] EXCEPT !.left = @ \ {t}]
  OBVIOUS
<1>1. /\ y \in Retries /\ y.phase = "scan" /\ y.full = retry[p].full
      /\ y.now = retry[p].now /\ y.left = retry[p].left \ {t}
  BY <1>0 DEF Retries
<1>2. retry' = [retry EXCEPT ![p] = y]
  BY <1>0 DEF RetryPublish, TypeOK
<1>3. TypeOK'
  BY <1>0, <1>1, <1>2, RepublishKeeps, TypesUnfold DEF RetryPublish
<1>4. RunShape'
  BY <1>0, <1>1, <1>2 DEF IInv, RunShape, TypeOK, RetryPublish
<1>5. Located'
  <2> SUFFICES ASSUME NEW u \in Task, Live(u)' PROVE Leads(u)'
    BY LocatedLeads
  <2>1. Leads(u)
    BY LocatedLeads DEF IInv, RetryPublish, Live
  <2>2. CASE u # t /\ (u \in timer \/ Queued(u))
    BY <1>0, <2>2, RepublishKeeps DEF Leads
  <2>3. ASSUME NEW q \in Process, Carries(q, u), u # t PROVE Carries(q, u)'
    <3>1. probe[q] # None => probe'[q] # None
      BY <1>0, RepublishKeeps
    <3> QED
      BY <1>0, <1>1, <1>2, <2>3, <3>1 DEF TypeOK, RetryPublish, Carries, Handling, RedriveAhead, RetryAhead
  <2>4. Queued(t)' \/ \E q \in Process : Carries(q, t)'
    <3>1. \A q \in Process : Handling(q, t) => Handling(q, t)'
      BY DEF RetryPublish, Handling
    <3> QED
      BY <1>0, <3>1, RepublishKeeps DEF Carries
  <2> QED
    BY <2>1, <2>2, <2>3, <2>4 DEF Leads
<1> QED
  BY <1>3, <1>4, <1>5 DEF IInv

LEMMA RetryFailsKeeps ==
  ASSUME WakeupsAssumption, IInv, NEW p \in Process, RetryFails(p)
  PROVE  IInv'
<1>0. TypeOK /\ retry[p] \in Retries /\ retry[p].phase = "scan"
  BY TypesUnfold DEF IInv, RetryFails
<1> PICK y : y = [retry[p] EXCEPT !.phase = "wait", !.now = FALSE, !.left = {}]
  OBVIOUS
<1>1. y \in Retries /\ y.phase = "wait" /\ y.full = retry[p].full
  BY <1>0 DEF Retries
<1>2. retry' = [retry EXCEPT ![p] = y]
  BY <1>0 DEF RetryFails, TypeOK
<1>3. TypeOK'
  BY <1>0, <1>1, <1>2, TypesUnfold DEF RetryFails
<1>4. RunShape'
  BY <1>0, <1>1, <1>2 DEF IInv, RunShape, TypeOK, RetryFails
<1>5. Located'
  <2> SUFFICES ASSUME NEW u \in Task, Live(u)' PROVE Leads(u)'
    BY LocatedLeads
  <2>1. Leads(u)
    BY LocatedLeads DEF IInv, RetryFails, Live
  <2>2. ASSUME NEW q \in Process, Carries(q, u) PROVE Carries(q, u)'
    BY <1>0, <1>1, <1>2, <2>2 DEF TypeOK, RetryFails, Carries, Handling, RedriveAhead, RetryAhead
  <2> QED
    BY <2>1, <2>2 DEF Leads, RetryFails, Queued
<1> QED
  BY <1>3, <1>4, <1>5 DEF IInv

\* A full retry that no full redrive has asked for since its scan began has passed
\* every row.
LEMMA RetryEndsKeeps ==
  ASSUME WakeupsAssumption, IInv, NEW p \in Process, RetryEnds(p)
  PROVE  IInv'
<1>0. /\ TypeOK /\ NoRetry \in Retries /\ retry[p] \in Retries
      /\ retry[p].phase = "scan" /\ retry[p].left = {}
  BY TypesUnfold DEF IInv, RetryEnds, NoRetry, Retries
<1>1. retry' = [retry EXCEPT ![p] = NoRetry] /\ run' = run
  BY DEF RetryEnds
<1>2. timer' \subseteq Task
  BY <1>0 DEF RetryEnds, LeftBehind, TypeOK
<1>3. TypeOK'
  <2>1. retry' \in [Process -> Retries]
    BY <1>0, <1>1, TypesUnfold
  <2>2. UNCHANGED <<row, holder, paused, up, queue, alive, owed, probe, at, run, faults>>
    BY DEF RetryEnds
  <2> QED
    BY <1>0, <1>2, <2>1, <2>2, TypesUnfold
<1>4. RunShape'
  BY <1>0, <1>1 DEF IInv, RunShape, TypeOK
<1>5. CASE retry[p].full /\ ~retry[p].now
  <2>1. Located'
    BY <1>1, <1>5, LeftBehindLocates DEF RetryEnds
  <2> QED
    BY <1>3, <1>4, <2>1 DEF IInv
<1>6. CASE ~(retry[p].full /\ ~retry[p].now)
  <2>1. Located'
    <3> SUFFICES ASSUME NEW u \in Task, Live(u)' PROVE Leads(u)'
      BY LocatedLeads
    <3>1. Leads(u)
      BY LocatedLeads DEF IInv, RetryEnds, Live
    <3>2. ASSUME NEW q \in Process, Carries(q, u) PROVE Carries(q, u)'
      BY <1>0, <1>1, <1>6, <3>2 DEF TypeOK, RetryEnds, Carries, Handling, RedriveAhead, RetryAhead
    <3> QED
      BY <1>6, <3>1, <3>2 DEF Leads, RetryEnds, Queued
  <2> QED
    BY <1>3, <1>4, <2>1 DEF IInv
<1> QED
  BY <1>5, <1>6

LEMMA TimerKeeps ==
  ASSUME WakeupsAssumption, IInv, NEW p \in Process, Timer(p)
  PROVE  IInv'
<1>0. TypeOK /\ run[p] \in Runs /\ (run[p].phase = "none" => run[p] = NoRun)
  BY TypesUnfold DEF IInv, RunShape
<1> PICK n : n = Requested(run[p], FALSE)
  OBVIOUS
<1>1. /\ n \in Runs /\ n.phase # "none"
      /\ run[p].rerun = "full" => n.rerun = "full"
      /\ run[p].full => n.full /\ n.phase = run[p].phase /\ n.left = run[p].left
  BY <1>0, RequestedKeeps
<1>2. run' = [run EXCEPT ![p] = n]
  BY DEF Timer
<1>3. TypeOK'
  <2>1. run' \in [Process -> Runs]
    BY <1>0, <1>1, <1>2, TypesUnfold
  <2>2. UNCHANGED <<row, holder, paused, up, queue, alive, owed, probe, at, retry, timer, faults>>
    BY DEF Timer
  <2> QED
    BY <1>0, <2>1, <2>2, TypesUnfold
<1>4. RunShape'
  BY <1>0, <1>1, <1>2 DEF IInv, RunShape, TypeOK, Timer
<1>5. Located'
  <2> SUFFICES ASSUME NEW u \in Task, Live(u)' PROVE Leads(u)'
    BY LocatedLeads
  <2>1. Leads(u)
    BY LocatedLeads DEF IInv, Timer, Live
  <2>2. ASSUME NEW q \in Process, Carries(q, u) PROVE Carries(q, u)'
    <3>1. UNCHANGED <<holder, at, owed, probe, alive, retry>>
      BY DEF Timer
    <3>2. run'[q] = IF q = p THEN n ELSE run[q]
      BY <1>0, <1>2 DEF TypeOK
    <3>3. RedriveAhead(run[q], u) => RedriveAhead(run'[q], u)
      BY <1>1, <3>2 DEF RedriveAhead
    <3> QED
      BY <2>2, <3>1, <3>3 DEF Carries, Handling
  <2> QED
    BY <2>1, <2>2 DEF Leads, Timer, Queued
<1> QED
  BY <1>3, <1>4, <1>5 DEF IInv

\* Faults: a crash leaves the process among those that will be restarted.
LEMMA CrashKeeps ==
  ASSUME WakeupsAssumption, IInv, NEW p \in Process, Crash(p)
  PROVE  IInv'
<1>0. TypeOK /\ at[p] \in Jobs /\ Idle \in Jobs /\ NoRun \in Runs /\ NoRetry \in Retries
  BY TypesUnfold DEF IInv, Jobs, NoRun, Runs, Mode, NoRetry, Retries
<1>1. /\ at' \in [Process -> Jobs] /\ queue' \subseteq Job
      /\ faults' \in 0..MaxFaults /\ owed' \in [Process -> SUBSET Task]
      /\ probe' \in [Process -> Task \cup {None}] /\ run' \in [Process -> Runs]
      /\ retry' \in [Process -> Retries]
      /\ holder' \in [Task -> Process \cup {None}]
  BY <1>0, TypesUnfold DEF Crash, FaultLeft, Jobs, WakeupsAssumption
<1>2. TypeOK'
  BY <1>0, <1>1, TypesUnfold DEF Crash
<1>3. RunShape'
  BY <1>0 DEF IInv, Crash, RunShape, TypeOK
<1>4. Located'
  BY LocatedLeads DEF Crash, Leads, Carries
<1> QED
  BY <1>2, <1>3, <1>4 DEF IInv

LEMMA RestartKeeps ==
  ASSUME WakeupsAssumption, IInv, NEW p \in Process, Restart(p)
  PROVE  IInv'
<1>0. TypeOK /\ NoRun \in Runs
  BY DEF IInv, NoRun, Runs, Mode
<1> PICK n : n = Requested(NoRun, TRUE)
  OBVIOUS
<1>1. n \in Runs /\ n.phase # "none" /\ (n.rerun = "full" \/ (n.full /\ n.phase = "acquire"))
  BY <1>0, RequestedKeeps
<1>2. run' = [run EXCEPT ![p] = n] /\ run'[p] = n
  BY <1>0 DEF Restart, TypeOK
<1>3. TypeOK'
  <2>1. run' \in [Process -> Runs]
    BY <1>0, <1>1, <1>2, TypesUnfold
  <2>2. alive' = alive \cup {p}
    BY DEF Restart
  <2>3. UNCHANGED <<row, holder, paused, up, queue, owed, probe, at, retry, timer, faults>>
    BY DEF Restart
  <2> QED
    BY <1>0, <2>1, <2>2, <2>3, TypesUnfold
<1>4. RunShape'
  BY <1>0, <1>1, <1>2 DEF IInv, RunShape, TypeOK, Restart
<1>5. Located'
  BY <1>1, <1>2, LocatedLeads DEF Leads, Carries, RedriveAhead
<1> QED
  BY <1>3, <1>4, <1>5 DEF IInv

LEMMA JobLostKeeps ==
  ASSUME WakeupsAssumption, IInv, NEW j \in queue, JobLost(j)
  PROVE  IInv'
<1>0. TypeOK /\ j \in Job /\ j.task \in Task
  BY DEF IInv, TypeOK, Job
<1>1. faults' \in 0..MaxFaults
  BY <1>0 DEF JobLost, FaultLeft, TypeOK, WakeupsAssumption
<1>2. TypeOK'
  BY <1>0, <1>1, TypesUnfold DEF JobLost
<1>3. RunShape'
  BY DEF IInv, JobLost, RunShape
<1>4. Located'
  <2> SUFFICES ASSUME NEW u \in Task, Live(u)' PROVE Leads(u)'
    BY LocatedLeads
  <2>1. Leads(u)
    BY LocatedLeads DEF IInv, JobLost, Live
  <2>2. Queued(u) => u \in timer' \/ Queued(u)'
    BY DEF JobLost, Queued
  <2>3. ASSUME NEW q \in Process, Carries(q, u) PROVE Carries(q, u)'
    BY <2>3 DEF JobLost, Carries, Handling, RedriveAhead, RetryAhead
  <2> QED
    BY <2>1, <2>2, <2>3 DEF Leads, JobLost
<1> QED
  BY <1>2, <1>3, <1>4 DEF IInv

\* Time and operators change nothing that leads to a row.
LEMMA WorldKeeps ==
  ASSUME WakeupsAssumption, IInv,
         \/ \E t \in Task : Clock(t)
         \/ Pause \/ Resume \/ BrokerDown \/ BrokerUp
  PROVE  IInv'
<1>0. TypeOK
  BY DEF IInv
<1>1. /\ row' \in [Task -> {"none", "waiting", "due", "processing", "expired", "done"}]
      /\ \A u \in Task : Live(u)' => Live(u)
      /\ UNCHANGED <<holder, queue, alive, owed, probe, at, run, retry, timer>>
      /\ paused' \in {"no", "finite", "indefinite"} /\ up' \in BOOLEAN /\ faults' \in 0..MaxFaults
  <2>1. CASE \E t \in Task : Clock(t)
    <3>1. PICK t \in Task : ComesDue(t) \/ LeaseExpires(t)
      BY <2>1 DEF Clock
    <3>2. CASE ComesDue(t)
      BY <1>0, <3>2 DEF ComesDue, TypeOK, Live
    <3>3. CASE LeaseExpires(t)
      BY <1>0, <3>3 DEF LeaseExpires, TypeOK, Live
    <3> QED
      BY <3>1, <3>2, <3>3
  <2>2. CASE Pause \/ Resume
    <3>1. CASE Pause
      BY <1>0, <3>1 DEF Pause, FaultLeft, TypeOK, Live, WakeupsAssumption
    <3>2. CASE Resume
      BY <1>0, <3>2 DEF Resume, TypeOK, Live
    <3> QED
      BY <2>2, <3>1, <3>2
  <2>3. CASE BrokerDown \/ BrokerUp
    <3>1. CASE BrokerDown
      <4>1. up' \in BOOLEAN
        BY <3>1, Zenon DEF BrokerDown
      <4> QED
        BY <1>0, <3>1, <4>1 DEF BrokerDown, FaultLeft, TypeOK, Live, WakeupsAssumption
    <3>2. CASE BrokerUp
      <4>1. up' \in BOOLEAN
        BY <3>2, Zenon DEF BrokerUp
      <4> QED
        BY <1>0, <3>2, <4>1 DEF BrokerUp, TypeOK, Live
    <3> QED
      BY <2>3, <3>1, <3>2
  <2> QED
    BY <2>1, <2>2, <2>3
<1>2. TypeOK'
  BY <1>0, <1>1, TypesUnfold
<1>3. RunShape'
  BY <1>1 DEF IInv, RunShape
<1>4. Located'
  <2> SUFFICES ASSUME NEW u \in Task, Live(u)' PROVE Leads(u)'
    BY LocatedLeads
  <2>1. Leads(u)
    BY <1>1, LocatedLeads DEF IInv
  <2> QED
    BY <1>1, <2>1 DEF Leads, Queued, Carries, Handling, RedriveAhead, RetryAhead
<1> QED
  BY <1>2, <1>3, <1>4 DEF IInv

LEMMA StutterKeeps == ASSUME IInv, UNCHANGED vars PROVE IInv'
BY DEF IInv, vars, TypeOK, RunShape, Located, Led, Live, Handling, RedriveAhead, RetryAhead

LEMMA StepKeeps == ASSUME WakeupsAssumption, IInv, [Next]_vars PROVE IInv'
<1>1. ASSUME NEW p \in Process, Handle(p) PROVE IInv'
  BY <1>1, ClaimKeeps, RunRowKeeps, DrainKeeps, AskKeeps, JobFailsKeeps DEF Handle, RunsRow
<1>2. ASSUME NEW p \in Process, Redrive(p) PROVE IInv'
  BY <1>2, ScanKeeps, DroppedKeeps, ScanFailsKeeps, PublishCandidateKeeps, ScanEndsKeeps DEF Redrive
<1>3. ASSUME NEW p \in Process, Publishes(p) PROVE IInv'
  BY <1>3, AfterCommitKeeps, RecoverKeeps DEF Publishes
<1>4. ASSUME NEW p \in Process, Timer(p) \/ Crash(p) \/ Restart(p) PROVE IInv'
  BY <1>4, TimerKeeps, CrashKeeps, RestartKeeps
<1>5. ASSUME NEW p \in Process, Retry(p) PROVE IInv'
  BY <1>5, RetryScanKeeps, RetryPublishKeeps, RetryFailsKeeps, RetryEndsKeeps DEF Retry
<1> QED
  BY <1>1, <1>2, <1>3, <1>4, <1>5, CommitKeeps, DeliverKeeps, JobLostKeeps, WorldKeeps, StutterKeeps
  DEF Next

LEMMA AlwaysIInv == Spec => []IInv
<1>1. Init => IInv
  BY InitHolds, WakeupsAssumption
<1>2. IInv /\ [Next]_vars => IInv'
  BY StepKeeps, WakeupsAssumption
<1> QED
  BY <1>1, <1>2, PTL DEF Spec

\* For every set of rows and processes, publisher, handler and redrive keep to their
\* states: no job is tried more often than BullMQ is told to try it.
THEOREM WakeupsTyped == Spec => []TypeOK
<1>1. IInv => TypeOK
  BY DEF IInv
<1> QED
  BY <1>1, AlwaysIInv, PTL

\* For every set of rows and processes: whatever fails between the commit of an outbox
\* row and its wake-up (a refused or slow publication, the death of a process with
\* publications owed, a handler that gives up, a redrive in another process, a scan that
\* stops half way), something still leads to the row, except where the code leaves it to
\* its timer: a scan under a pause, a job the broker lost, and a full redrive that is
\* the row's only hope when its lease or target query fails, or when it is handed to a
\* retry whose last scan had begun.
THEOREM RowsAreLocated == Spec => []Located
<1>1. IInv => Located
  BY DEF IInv
<1> QED
  BY <1>1, AlwaysIInv, PTL
=============================================================================
