---------------------------- MODULE OutboxWakeups ----------------------------
(***************************************************************************)
(* How a worker learns of the rows of computed_update_outbox.  A row is    *)
(* durable; what tells the workers of it is a wake-up in a BullMQ queue,   *)
(* published after the commit and only a hint: the publication may fail,   *)
(* the process may die before it, the handler may find that the row cannot *)
(* be claimed yet.  Every process runs the publisher with its recovery     *)
(* probe, the handler, and the redrive that publishes wake-ups from the    *)
(* rows: all of them at startup and when the broker is back, those that    *)
(* can be claimed every five minutes.  A redrive whose query fails is      *)
(* forgotten or scans again later.  What a worker does with a row is       *)
(* ComputedOutbox; here it is one step.  One base.                         *)
(***************************************************************************)
EXTENDS Naturals, FiniteSets

CONSTANTS
  Task,          \* ids of outbox rows, in order; an id is used once
  Process,       \* backend processes; each handles one wake-up at a time
  None,          \* no task, no process
  Attempts,      \* attempts of a wake-up job
  MaxProcessing, \* config.maxConcurrentProcessingPerBase
  MaxFaults      \* crashes, outages, errors, failures of a task, pauses (a bound of the model)

ASSUME WakeupsAssumption ==
  /\ Task \subseteq Nat
  /\ None \notin Task \cup Process
  /\ Attempts \in Nat \ {0}
  /\ MaxProcessing \in Nat \ {0}
  /\ MaxFaults \in Nat

VARIABLES
  row,    \* row[t]: none, waiting (next_run_at to come), due, processing, expired, done
  holder, \* holder[t]: the process that works on t
  paused, \* the base: no, finite (resume_at is set), indefinite
  up,     \* the broker answers
  queue,  \* the wake-up jobs the broker keeps
  alive,  \* the processes that run
  owed,   \* owed[p]: tasks p has committed and not yet published (afterCommit)
  probe,  \* probe[p]: the wake-up of p's recovery probe
  at,     \* at[p]: the job p handles, and how far
  run,    \* run[p]: the redrive of p
  retry,  \* retry[p]: what scans again for p after a scan that failed; now: its scan is
          \* full and began after the last full redrive that asked for it
  timer,  \* history: tasks without a wake-up that only the timer's redrive finds
  faults  \* so far

durable == <<row, holder>>
vars == <<row, holder, paused, up, queue, alive, owed, probe, at, run, retry, timer, faults>>

Job   == [task : Task, tries : 1..Attempts]
Mode  == {"no", "actionable", "full"}
Idle  == [step |-> "idle", job |-> None]
NoRun == [phase |-> "none", full |-> FALSE, left |-> {}, rerun |-> "no"]
NoRetry == [phase |-> "none", full |-> FALSE, now |-> FALSE, left |-> {}]

Live(t)    == row[t] \notin {"none", "done"}
Working    == {t \in Task : row[t] = "processing"}
FaultLeft  == faults < MaxFaults /\ faults' = faults + 1
NoFault    == UNCHANGED faults

\* Some ids were used before, and some of the bound on faults may be spent.
Init ==
  /\ row \in [Task -> {"none", "done"}]
  /\ holder = [t \in Task |-> None]
  /\ paused \in {"no", "finite", "indefinite"}
  /\ up = TRUE
  /\ queue = {}
  /\ alive = Process
  /\ owed = [p \in Process |-> {}]
  /\ probe = [p \in Process |-> None]
  /\ at = [p \in Process |-> Idle]
  /\ run = [p \in Process |-> NoRun]
  /\ retry = [p \in Process |-> NoRetry]
  /\ timer = {}
  /\ faults \in 0..MaxFaults

(***************************************************************************)
(* The publisher.  A failure starts the recovery probe; while it runs,     *)
(* publications fail at once.  A command that is only slow is reported as  *)
(* failed and reaches the broker all the same.                             *)
(***************************************************************************)
With(t) == queue \cup {[task |-> t, tries |-> Attempts]}

PublishAs(p, t, ok, added) ==
  \/ probe[p] # None /\ ~ok /\ UNCHANGED <<queue, probe, timer, faults>>
  \/ probe[p] = None /\ up /\ ok
     /\ queue' = added /\ timer' = timer \ {t} /\ UNCHANGED <<probe, faults>>
  \/ probe[p] = None /\ ~up /\ ~ok
     /\ probe' = [probe EXCEPT ![p] = t] /\ UNCHANGED <<queue, timer, faults>>
  \/ probe[p] = None /\ up /\ ~ok /\ FaultLeft
     /\ queue' = added /\ probe' = [probe EXCEPT ![p] = t] /\ UNCHANGED timer

Publish(p, t, ok) == PublishAs(p, t, ok, With(t))

\* The broker still has a job of t: in its queue, or handled by a process of Q.
Handling(p, t) == at[p].step \in {"claim", "ask", "fail"} /\ at[p].job.task = t
Kept(t, Q) == (\E j \in queue : j.task = t) \/ \E q \in Q : Handling(q, t)

\* Redrives and deferrals name their jobs after the row: one that is kept under the
\* same name is accepted and adds nothing.
Republish(p, t, ok, Q) == Publish(p, t, ok) \/ (Kept(t, Q) /\ PublishAs(p, t, ok, queue))

\* Mutant of Requested: a request during a run is taken for served by it.
RequestDropped(r, full) ==
  IF r.phase = "none" THEN [NoRun EXCEPT !.phase = "acquire", !.full = full] ELSE r

\* startRedrive and queueRerun: while a run is active the request is kept for after it.
Requested(r, full) ==
  IF r.phase = "none"
  THEN [NoRun EXCEPT !.phase = "acquire", !.full = full]
  ELSE [r EXCEPT !.rerun =
         IF full THEN "full" ELSE IF @ = "no" THEN "actionable" ELSE @]

\* The probe's command is accepted: delivery has recovered, and a full redrive is due.
Recover(p) ==
  /\ up /\ probe[p] # None
  /\ queue' = With(probe[p]) \/ (Kept(probe[p], Process) /\ queue' = queue)
  /\ timer' = timer \ {probe[p]}
  /\ probe' = [probe EXCEPT ![p] = None]
  /\ run' = [run EXCEPT ![p] = Requested(@, TRUE)]
  /\ UNCHANGED <<row, holder, paused, up, alive, owed, at, retry, faults>>

(***************************************************************************)
(* Rows.                                                                   *)
(***************************************************************************)
\* A transaction commits a new row; its afterCommit hook is still to run.
Commit(p, t) ==
  /\ p \in alive
  /\ row[t] = "none"
  /\ row' = [row EXCEPT ![t] = "due"]
  /\ owed' = [owed EXCEPT ![p] = @ \cup {t}]
  /\ UNCHANGED <<holder, paused, up, queue, alive, probe, at, run, retry, timer, faults>>

\* publishSafely: a failure is logged and swallowed.
AfterCommit(p, t) ==
  /\ t \in owed[p]
  /\ owed' = [owed EXCEPT ![p] = @ \ {t}]
  /\ \E ok \in BOOLEAN : Publish(p, t, ok)
  /\ UNCHANGED <<row, holder, paused, up, alive, at, run, retry>>

\* getClaimDeferral finds nothing to wait for.
Claimable(t) ==
  /\ row[t] \in {"due", "expired"}
  /\ paused = "no"
  /\ Cardinality(Working) < MaxProcessing

Taken(p, t) ==
  /\ row' = [row EXCEPT ![t] = "processing"]
  /\ holder' = [holder EXCEPT ![t] = p]

\* What runs a claimed row ends: it is done, or waits for its retry with a wake-up owed.
RunRow(p, t) ==
  /\ holder[t] = p
  /\ holder' = [holder EXCEPT ![t] = None]
  /\ at' = [at EXCEPT ![p].step = "drain"]
  /\ \/ row' = [row EXCEPT ![t] = "done"] /\ NoFault /\ UNCHANGED owed
     \/ /\ FaultLeft
        /\ row' = [row EXCEPT ![t] = "waiting"]
        /\ owed' = [owed EXCEPT ![p] = @ \cup {t}]
  /\ UNCHANGED <<paused, up, queue, alive, probe, run, retry, timer>>

(***************************************************************************)
(* The handler of a wake-up.                                               *)
(***************************************************************************)
Deliver(p, j) ==
  /\ up /\ p \in alive /\ at[p] = Idle
  /\ j \in queue
  /\ queue' = queue \ {j}
  /\ at' = [at EXCEPT ![p] = [step |-> "claim", job |-> j]]
  /\ UNCHANGED <<row, holder, paused, up, alive, owed, probe, run, retry, timer, faults>>

\* runTaskById, without takeover; the database may not answer.
ClaimTask(p) ==
  LET t == at[p].job.task
  IN  /\ at[p].step = "claim"
      /\ \/ Claimable(t) /\ Taken(p, t) /\ at' = [at EXCEPT ![p].step = "run"] /\ NoFault
         \/ ~Claimable(t) /\ at' = [at EXCEPT ![p].step = "ask"] /\ NoFault /\ UNCHANGED durable
         \/ FaultLeft /\ at' = [at EXCEPT ![p].step = "fail"] /\ UNCHANGED durable
      /\ UNCHANGED <<paused, up, queue, alive, owed, probe, run, retry, timer>>

\* drainRemainingOutbox: whatever else can be claimed, until the poll is empty or fails.
Drain(p) ==
  /\ at[p].step = "drain"
  /\ \/ /\ at' = [at EXCEPT ![p].step = "run"]
        /\ \E t \in Task : Claimable(t) /\ Taken(p, t)
     \/ at' = [at EXCEPT ![p] = Idle] /\ UNCHANGED durable
  /\ UNCHANGED <<paused, up, queue, alive, owed, probe, run, retry, timer, faults>>

\* Mutant of Ask: a paused row is deferred whether the pause has an end or not.
AskDefersAll(p) ==
  LET t == at[p].job.task
  IN  /\ at[p].step = "ask"
      /\ \/ /\ ~Live(t)
            /\ at' = [at EXCEPT ![p] = Idle]
            /\ UNCHANGED <<queue, probe, timer, faults>>
         \/ /\ Live(t)
            /\ \E ok \in BOOLEAN :
                 /\ Republish(p, t, ok, Process \ {p})
                 /\ at' = [at EXCEPT ![p] = IF ok THEN Idle ELSE [@ EXCEPT !.step = "fail"]]
      /\ UNCHANGED <<row, holder, paused, up, alive, owed, run, retry>>

\* getTaskClaimEligibility after a claim that found nothing.  A row that is gone ends
\* the wake-up, and so does a pause without an end: nothing is left in the queue of a
\* parked row.  Whatever else is in the way, a later wake-up takes over.
Ask(p) ==
  LET t == at[p].job.task
  IN  /\ at[p].step = "ask"
      /\ \/ /\ ~Live(t)
            /\ at' = [at EXCEPT ![p] = Idle]
            /\ UNCHANGED <<queue, probe, timer, faults>>
         \/ /\ row[t] \in {"due", "expired"} /\ paused = "indefinite"
            /\ at' = [at EXCEPT ![p] = Idle]
            /\ timer' = timer \cup {t}
            /\ UNCHANGED <<queue, probe, faults>>
         \/ /\ Live(t)
            /\ row[t] \in {"due", "expired"} => paused # "indefinite"
            /\ \E ok \in BOOLEAN :
                 /\ Republish(p, t, ok, Process \ {p})
                 /\ at' = [at EXCEPT ![p] = IF ok THEN Idle ELSE [@ EXCEPT !.step = "fail"]]
      /\ UNCHANGED <<row, holder, paused, up, alive, owed, run, retry>>

\* Mutant of JobFails: the attempt that fails is not yet the last.
JobFailsOnceMore(p) ==
  LET j == at[p].job
  IN  /\ at[p].step = "fail"
      /\ at' = [at EXCEPT ![p] = Idle]
      /\ queue' = queue \cup {[j EXCEPT !.tries = @ - 1]}
      /\ UNCHANGED <<row, holder, paused, up, alive, owed, probe, run, retry, timer, faults>>

\* The job fails: it is tried again, or on its last attempt followed by a new
\* wake-up, if that can be published.
JobFails(p) ==
  LET j == at[p].job
  IN  /\ at[p].step = "fail"
      /\ at' = [at EXCEPT ![p] = Idle]
      /\ \/ /\ j.tries > 1
            /\ queue' = queue \cup {[j EXCEPT !.tries = @ - 1]}
            /\ UNCHANGED <<probe, timer, faults>>
         \/ j.tries = 1 /\ \E ok \in BOOLEAN : Publish(p, j.task, ok)
      /\ UNCHANGED <<row, holder, paused, up, alive, owed, run, retry>>

(***************************************************************************)
(* The redrive.  One process at a time scans, under an advisory lock of    *)
(* the meta database; another finds the lease busy and asks again.  Rows   *)
(* under a pause are left out, and a failed publication does not stop it.  *)
(***************************************************************************)
Scanning(p) == run[p].phase = "scan"

\* Mutant of Actionable: only leases that have run out.
ActionableLease(t) == row[t] = "expired"

Actionable(t) == row[t] \in {"due", "expired"}

Candidates(full) == {t \in Task : Live(t) /\ paused = "no" /\ (full \/ Actionable(t))}

\* What a redrive or a retry leaves behind.
RedriveAhead(r, t) ==
  \/ r.rerun = "full"
  \/ r.full /\ (r.phase = "acquire" \/ t \in r.left)

RetryAhead(y, t) == y.full /\ (y.phase = "wait" \/ ~y.now \/ t \in y.left)

\* Something leads to t, given the redrives and the retries: a job, a publication to
\* come, a worker, a probe, a restart, a full redrive that has not passed t yet or is
\* asked for, or a full retry.
Led(t, runs, retries) ==
  \/ \E j \in queue : j.task = t
  \/ \E p \in Process :
       \/ t \in owed[p] \/ holder[t] = p \/ probe[p] # None \/ p \notin alive
       \/ Handling(p, t)
       \/ RedriveAhead(runs[p], t)
       \/ RetryAhead(retries[p], t)

\* The rows nothing but the timer leads to when the redrives are runs and the retries
\* are retries.
LeftBehind(runs, retries) == {t \in Task : Live(t) /\ ~Led(t, runs, retries)}

\* What comes after a run: a request that came during it starts the next one.
NextRun(r) == IF r.rerun = "no" THEN NoRun ELSE Requested(NoRun, r.rerun = "full")

\* A page of candidates is read at once; they fit one page.
Scan(p) ==
  /\ run[p].phase = "acquire"
  /\ IF \E q \in Process : Scanning(q)
     THEN /\ run' = [run EXCEPT ![p] = [NoRun EXCEPT
                       !.phase = "acquire", !.full = run[p].full \/ run[p].rerun = "full"]]
          /\ UNCHANGED timer
     ELSE /\ run' = [run EXCEPT ![p].phase = "scan", ![p].left = Candidates(run[p].full)]
          /\ timer' = timer \cup {t \in Task : Live(t) /\ paused # "no"}
  /\ UNCHANGED <<row, holder, paused, up, queue, alive, owed, probe, at, retry, faults>>

\* The query for the lease or the one for the targets fails: runOnce logs it, and the
\* redrive is forgotten.
Dropped(p) ==
  /\ run[p].phase = "acquire" /\ FaultLeft
  /\ run' = [run EXCEPT ![p] = NextRun(@)]
  /\ timer' = timer \cup LeftBehind(run', retry)
  /\ UNCHANGED <<row, holder, paused, up, queue, alive, owed, probe, at, retry>>

\* scheduleTargetRetry.
ScheduleRetry(y, full) ==
  IF y.phase = "none"
  THEN [NoRetry EXCEPT !.phase = "wait", !.full = full]
  ELSE [y EXCEPT !.full = @ \/ full, !.now = @ /\ ~full]

\* A query for candidates fails, the first or a later one: the target is left to a
\* retry, and the run goes to its end.
ScanFails(p) ==
  /\ \/ run[p].phase = "acquire" /\ ~\E q \in Process : Scanning(q)
     \/ Scanning(p)
  /\ FaultLeft
  /\ run' = [run EXCEPT ![p].phase = "scan", ![p].left = {}]
  /\ retry' = [retry EXCEPT ![p] = ScheduleRetry(@, run[p].full)]
  /\ UNCHANGED <<row, holder, paused, up, queue, alive, owed, probe, at, timer>>

PublishCandidate(p, t) ==
  /\ Scanning(p)
  /\ t \in run[p].left /\ \A u \in run[p].left : t <= u
  /\ run' = [run EXCEPT ![p].left = @ \ {t}]
  /\ \E ok \in BOOLEAN : Republish(p, t, ok, Process)
  /\ UNCHANGED <<row, holder, paused, up, alive, owed, at, retry>>

ScanEnds(p) ==
  /\ Scanning(p) /\ run[p].left = {}
  /\ run' = [run EXCEPT ![p] = NextRun(@)]
  /\ UNCHANGED <<row, holder, paused, up, queue, alive, owed, probe, at, retry, timer, faults>>

Timer(p) ==
  /\ p \in alive
  /\ run' = [run EXCEPT ![p] = Requested(@, FALSE)]
  /\ UNCHANGED <<row, holder, paused, up, queue, alive, owed, probe, at, retry, timer, faults>>

(***************************************************************************)
(* retryTargetUntilAvailable: waits, scans, waits again if the scan fails, *)
(* as often as it does (at its first query that changes nothing).  It      *)
(* takes neither the lease nor the place of the redrive, and scans what it *)
(* was asked for when the scan began.                                      *)
(***************************************************************************)
RetryScan(p) ==
  /\ retry[p].phase = "wait"
  /\ retry' = [retry EXCEPT ![p] = [@ EXCEPT
       !.phase = "scan", !.now = retry[p].full, !.left = Candidates(retry[p].full)]]
  /\ timer' = timer \cup {t \in Task : Live(t) /\ paused # "no"}
  /\ UNCHANGED <<row, holder, paused, up, queue, alive, owed, probe, at, run, faults>>

RetryPublish(p, t) ==
  /\ retry[p].phase = "scan"
  /\ t \in retry[p].left /\ \A u \in retry[p].left : t <= u
  /\ retry' = [retry EXCEPT ![p].left = @ \ {t}]
  /\ \E ok \in BOOLEAN : Republish(p, t, ok, Process)
  /\ UNCHANGED <<row, holder, paused, up, alive, owed, at, run>>

RetryFails(p) ==
  /\ retry[p].phase = "scan"
  /\ retry' = [retry EXCEPT ![p] = [@ EXCEPT !.phase = "wait", !.now = FALSE, !.left = {}]]
  /\ UNCHANGED <<row, holder, paused, up, queue, alive, owed, probe, at, run, timer, faults>>

\* A full redrive that asked for the retry while it scanned is not heard.
RetryEnds(p) ==
  /\ retry[p].phase = "scan" /\ retry[p].left = {}
  /\ retry' = [retry EXCEPT ![p] = NoRetry]
  /\ timer' = IF retry[p].full /\ ~retry[p].now
              THEN timer \cup LeftBehind(run, retry') ELSE timer
  /\ UNCHANGED <<row, holder, paused, up, queue, alive, owed, probe, at, run, faults>>

(***************************************************************************)
(* Time, operators and what may go wrong.                                  *)
(***************************************************************************)
ComesDue(t) ==
  /\ row[t] = "waiting"
  /\ row' = [row EXCEPT ![t] = "due"]
  /\ UNCHANGED <<holder, paused, up, queue, alive, owed, probe, at, run, retry, timer, faults>>

\* Nobody renews the lease of a process that is gone.
LeaseExpires(t) ==
  /\ row[t] = "processing" /\ holder[t] = None
  /\ row' = [row EXCEPT ![t] = "expired"]
  /\ UNCHANGED <<holder, paused, up, queue, alive, owed, probe, at, run, retry, timer, faults>>

Pause ==
  /\ paused = "no" /\ FaultLeft
  /\ paused' \in {"finite", "indefinite"}
  /\ UNCHANGED <<row, holder, up, queue, alive, owed, probe, at, run, retry, timer>>

\* resume_at passes, or resumeScope deletes the pause; neither publishes anything.
Resume ==
  /\ paused # "no"
  /\ paused' = "no"
  /\ UNCHANGED <<row, holder, up, queue, alive, owed, probe, at, run, retry, timer, faults>>

BrokerDown ==
  /\ up /\ FaultLeft
  /\ up' = FALSE
  /\ UNCHANGED <<row, holder, paused, queue, alive, owed, probe, at, run, retry, timer>>

BrokerUp ==
  /\ ~up
  /\ up' = TRUE
  /\ UNCHANGED <<row, holder, paused, queue, alive, owed, probe, at, run, retry, timer, faults>>

\* The broker comes back without a job it had accepted.
JobLost(j) ==
  /\ j \in queue /\ FaultLeft
  /\ queue' = queue \ {j}
  /\ timer' = timer \cup {j.task}
  /\ UNCHANGED <<row, holder, paused, up, alive, owed, probe, at, run, retry>>

\* The process dies: its rows keep their lease till it expires, its job is delivered
\* again, its owed publications, its probe, its redrive and its retry are gone.
Crash(p) ==
  /\ p \in alive /\ FaultLeft
  /\ alive' = alive \ {p}
  /\ holder' = [t \in Task |-> IF holder[t] = p THEN None ELSE holder[t]]
  /\ queue' = IF at[p] = Idle THEN queue ELSE queue \cup {at[p].job}
  /\ at' = [at EXCEPT ![p] = Idle]
  /\ owed' = [owed EXCEPT ![p] = {}]
  /\ probe' = [probe EXCEPT ![p] = None]
  /\ run' = [run EXCEPT ![p] = NoRun]
  /\ retry' = [retry EXCEPT ![p] = NoRetry]
  /\ UNCHANGED <<row, paused, up, timer>>

\* onApplicationBootstrap.
Restart(p) ==
  /\ p \notin alive
  /\ alive' = alive \cup {p}
  /\ run' = [run EXCEPT ![p] = Requested(NoRun, TRUE)]
  /\ UNCHANGED <<row, holder, paused, up, queue, owed, probe, at, retry, timer, faults>>

RunsRow(p) == at[p].step = "run" /\ \E t \in Task : RunRow(p, t)
Handle(p)  == ClaimTask(p) \/ RunsRow(p) \/ Drain(p) \/ Ask(p) \/ JobFails(p)
Redrive(p) ==
  Scan(p) \/ Dropped(p) \/ ScanFails(p) \/ (\E t \in Task : PublishCandidate(p, t)) \/ ScanEnds(p)
Retry(p) ==
  RetryScan(p) \/ (\E t \in Task : RetryPublish(p, t)) \/ RetryFails(p) \/ RetryEnds(p)
Publishes(p) == (\E t \in Task : AfterCommit(p, t)) \/ Recover(p)
Clock(t)   == ComesDue(t) \/ LeaseExpires(t)

Next ==
  \/ \E p \in Process, t \in Task : Commit(p, t)
  \/ \E p \in Process : Handle(p) \/ Redrive(p) \/ Retry(p) \/ Publishes(p) \/ Timer(p) \/ Crash(p) \/ Restart(p)
  \/ \E p \in Process, j \in queue : Deliver(p, j)
  \/ \E t \in Task : Clock(t)
  \/ \E j \in queue : JobLost(j)
  \/ Pause \/ Resume \/ BrokerDown \/ BrokerUp

(***************************************************************************)
(* Timers fire, processes go on and are restarted, the broker comes back,  *)
(* its jobs are delivered, a pause with an end ends.                       *)
(***************************************************************************)
Fairness ==
  /\ \A p \in Process :
       /\ WF_vars(Handle(p)) /\ WF_vars(Redrive(p)) /\ WF_vars(Retry(p)) /\ WF_vars(Publishes(p))
       /\ SF_vars(Recover(p)) /\ WF_vars(Timer(p)) /\ WF_vars(Restart(p))
  /\ \A t \in Task :
       /\ WF_vars(Clock(t))
       /\ SF_vars(\E p \in Process, n \in 1..Attempts : Deliver(p, [task |-> t, tries |-> n]))
  /\ WF_vars(BrokerUp)
  /\ WF_vars(paused = "finite" /\ Resume)

Spec     == Init /\ [][Next]_vars
FairSpec == Spec /\ Fairness

(***************************************************************************)
(* Properties.                                                             *)
(***************************************************************************)
TypeOK ==
  /\ row \in [Task -> {"none", "waiting", "due", "processing", "expired", "done"}]
  /\ holder \in [Task -> Process \cup {None}]
  /\ paused \in {"no", "finite", "indefinite"}
  /\ up \in BOOLEAN
  /\ queue \subseteq Job
  /\ alive \subseteq Process
  /\ owed \in [Process -> SUBSET Task]
  /\ probe \in [Process -> Task \cup {None}]
  /\ at \in [Process -> {Idle} \cup [step : {"claim", "run", "drain", "ask", "fail"}, job : Job]]
  /\ run \in [Process -> [phase : {"none", "acquire", "scan"}, full : BOOLEAN,
                          left : SUBSET Task, rerun : Mode]]
  /\ retry \in [Process -> [phase : {"none", "wait", "scan"}, full : BOOLEAN, now : BOOLEAN,
                            left : SUBSET Task]]
  /\ timer \subseteq Task
  /\ faults \in 0..MaxFaults

\* Between its commit and its wake-up something other than the five-minute timer leads
\* to every row: a job, a publication to come, a worker, a probe, a restart, a redrive
\* that has it ahead, or the retry of a scan that failed.  Left to the timer are only:
\* rows a scan left out for a pause, rows whose accepted job the broker lost, and rows
\* that had nothing but a full redrive ahead when its lease or target query failed, or
\* when it left its target to a retry whose last scan had begun.
Located == \A t \in Task : Live(t) => t \in timer \/ Led(t, run, retry)

\* Every row is run to its end, unless its base stays paused.
EventuallyRun ==
  \A t \in Task : Live(t) ~> row[t] = "done" \/ paused = "indefinite"

\* Under a pause without an end the wake-ups of the rows die out: deferral does not
\* keep the queue turning.
ParkedQuiet ==
  <>[](paused = "indefinite") => <>[](queue = {})
=============================================================================
