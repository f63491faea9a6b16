---------------------------- MODULE WorkspaceWatch ----------------------------
(***************************************************************************)
(* mochi-local-workspace-watch.service.ts: the backend watches the         *)
(* database file, lists every table again when the file has changed, and   *)
(* announces the tables whose rows differ from its last snapshot, so that  *)
(* open grids show what other programs wrote.                              *)
(*                                                                         *)
(* A refresh is one turn of the event loop, but each list call in it reads *)
(* the file anew: other programs write between two of them.  fs.watchFile, *)
(* the timer and the other programs are external.                          *)
(***************************************************************************)
EXTENDS Naturals, FiniteSets

CONSTANTS
    Table,
    Rows,               \* fingerprints of a table's rows
    None,
    MaxLockedRetries,   \* maxLockedRetries
    ListsWrite,         \* whether the workspace has Mochi Kit collections,
                        \* which every list call copies into the tables
    MaxWrites           \* bound on the writes of other programs

ASSUME WorkspaceWatchAssumption ==
    /\ None \notin Rows /\ None \notin BOOLEAN
    /\ MaxLockedRetries \in Nat
    /\ ListsWrite \in BOOLEAN
    /\ MaxWrites \in Nat

VARIABLES
    rows,           \* what the file holds; a table's rows outlive the table
    listed,         \* tables listTables returns
    dirty,          \* the file has changed since its last poll
    writes,         \* writes of other programs so far
    watching,       \* false after onModuleDestroy
    timer,          \* debounceTimer: None, or the publish flag it will use
    refresh,        \* the refresh that runs, or None
    initialized,
    retries,        \* lockedRetryCount
    snapshots,      \* rows of a table in the last refresh, None if not in it
    told,           \* history: the rows the grids of a table last heard of
    mishap          \* history: a refresh was given up, or it failed after it
                    \* had announced a table

file == <<rows, listed, writes>>
vars == <<file, dirty, watching, timer, refresh, initialized, retries,
          snapshots, told, mishap>>

Refresh == [publish : BOOLEAN, next : [Table -> Rows \cup {None}],
            left : SUBSET Table, announced : BOOLEAN]

Nothing == [t \in Table |-> None]

\* listBases and listTables.
Start(publish) ==
    refresh' = [publish |-> publish, next |-> Nothing, left |-> listed,
                announced |-> FALSE]

Init ==
    /\ rows \in [Table -> Rows]
    /\ listed \in SUBSET Table
    /\ dirty = ListsWrite
    /\ writes = 0
    /\ watching = TRUE
    /\ timer = None
    /\ refresh = [publish |-> FALSE, next |-> Nothing, left |-> listed,
                  announced |-> FALSE]
    /\ initialized = FALSE
    /\ retries = 0
    /\ snapshots = Nothing
    /\ told = Nothing
    /\ mishap = FALSE

ExternalWrite ==
    /\ writes < MaxWrites
    /\ writes' = writes + 1
    /\ dirty' = TRUE
    /\ \E t \in Table :
        \/ /\ \E new \in Rows \ {rows[t]} : rows' = [rows EXCEPT ![t] = new]
           /\ UNCHANGED listed
        \/ /\ listed' = IF t \in listed THEN listed \ {t} ELSE listed \cup {t}
           /\ UNCHANGED rows
    /\ UNCHANGED <<watching, timer, refresh, initialized, retries, snapshots,
                   told, mishap>>

\* Mutant of ScheduleRefresh: the flag is dropped on the way to the timer.
ScheduleSilent(publish) == timer' = FALSE

\* scheduleRefresh: a timer that is set replaces the one before.
ScheduleRefresh(publish) == timer' = publish

HandleFileChange ==
    /\ watching /\ dirty /\ refresh = None
    /\ dirty' = FALSE
    /\ ScheduleRefresh(initialized)
    /\ UNCHANGED <<file, watching, refresh, initialized, retries, snapshots,
                   told, mishap>>

TimerFires ==
    /\ timer # None /\ refresh = None
    /\ timer' = None
    /\ Start(timer)
    /\ dirty' = (dirty \/ ListsWrite)
    /\ UNCHANGED <<file, watching, initialized, retries, snapshots, told,
                   mishap>>

\* listRecords of one table, and publishTableChange.  The first time a table
\* is listed nothing is announced: grids have yet to open it.
ReadTable(t) ==
    /\ refresh # None /\ t \in refresh.left
    /\ LET changed == snapshots[t] \notin {None, rows[t]}
           announce == refresh.publish /\ changed
       IN /\ refresh' = [refresh EXCEPT !.left = @ \ {t},
                                        !.next[t] = rows[t],
                                        !.announced = @ \/ announce]
          /\ told' = IF announce \/ snapshots[t] = None
                     THEN [told EXCEPT ![t] = rows[t]] ELSE told
    /\ dirty' = (dirty \/ ListsWrite)
    /\ UNCHANGED <<file, watching, timer, initialized, retries, snapshots,
                   mishap>>

RefreshDone ==
    /\ refresh # None /\ refresh.left = {}
    /\ snapshots' = refresh.next
    /\ initialized' = TRUE
    /\ retries' = 0
    /\ refresh' = None
    /\ UNCHANGED <<file, dirty, watching, timer, told, mishap>>

\* Mutant of Retry: one retry too many.
RetryOnceMore ==
    /\ retries <= MaxLockedRetries
    /\ retries' = retries + 1
    /\ ScheduleRefresh(refresh.publish)
    /\ mishap' = (mishap \/ refresh.announced)

\* Mutant of Retry: the retries are not counted.
RetryUncounted ==
    /\ ScheduleRefresh(refresh.publish)
    /\ mishap' = (mishap \/ refresh.announced)
    /\ UNCHANGED retries

\* Mutant of Retry: the retry waits for the next file change.
RetryUnscheduled ==
    /\ retries < MaxLockedRetries
    /\ retries' = retries + 1
    /\ mishap' = (mishap \/ refresh.announced)
    /\ UNCHANGED timer

\* "database is locked" is tried again a few times, with the same flag.
Retry ==
    /\ retries < MaxLockedRetries
    /\ retries' = retries + 1
    /\ ScheduleRefresh(refresh.publish)
    /\ mishap' = (mishap \/ refresh.announced)

\* A list call throws.  After the last retry, and after any other error, the
\* refresh is given up.
RefreshFails ==
    /\ refresh # None
    /\ refresh' = None
    /\ \/ Retry
       \/ /\ retries' = 0
          /\ mishap' = TRUE
          /\ UNCHANGED timer
    /\ UNCHANGED <<file, dirty, watching, initialized, snapshots, told>>

OnModuleDestroy ==
    /\ watching /\ refresh = None
    /\ watching' = FALSE
    /\ timer' = None
    /\ UNCHANGED <<file, dirty, refresh, initialized, retries, snapshots, told,
                   mishap>>

RefreshStep ==
    \/ \E t \in Table : ReadTable(t)
    \/ RefreshDone
    \/ RefreshFails

Next ==
    \/ ExternalWrite
    \/ HandleFileChange
    \/ TimerFires
    \/ RefreshStep
    \/ OnModuleDestroy

\* Polls come back, timers fire and a refresh that has begun goes on.
Fairness ==
    /\ WF_vars(HandleFileChange)
    /\ WF_vars(TimerFires)
    /\ WF_vars(RefreshStep)

Spec == Init /\ [][Next]_vars /\ Fairness

-----------------------------------------------------------------------------
\* Type invariant: the service's fields and the refresh in progress.
TypeOK ==
    /\ rows \in [Table -> Rows]
    /\ listed \in SUBSET Table
    /\ writes \in 0 .. MaxWrites
    /\ dirty \in BOOLEAN /\ watching \in BOOLEAN
    /\ timer \in BOOLEAN \cup {None}
    /\ refresh \in Refresh \cup {None}
    /\ initialized \in BOOLEAN
    /\ retries \in 0 .. MaxLockedRetries
    /\ snapshots \in [Table -> Rows \cup {None}]
    /\ told \in [Table -> Rows \cup {None}]
    /\ mishap \in BOOLEAN

\* No change of a known table slips into a snapshot without being announced,
\* whatever mix of retries, file events and replaced timers led to the
\* refresh: no silent refresh is left over from the start-up.
NoSilentRefresh ==
    [][\A t \in Table :
        snapshots[t] # None /\ snapshots'[t] \notin {None, snapshots[t]}
            => told[t] = snapshots'[t]]_vars

\* What another program writes to a table the service knows reaches its
\* grids: every change is announced in the end, unless a refresh was given
\* up or broken off after an announcement, the table went, or the service
\* was shut down.
ChangesAreTold ==
    \A t \in Table :
        snapshots[t] # None /\ told[t] # rows[t]
            ~> told[t] = rows[t] \/ t \notin listed \/ mishap \/ ~watching

\* When the other programs are done the service comes to rest, however many
\* list calls fail: it watches for changes that are not its own.  With Mochi
\* Kit collections it does not: each of its list calls changes the file.
Settles == <>[](refresh = None /\ timer = None)
=============================================================================
