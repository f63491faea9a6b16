------------------------- MODULE WorkspaceWatchProofs -------------------------
(***************************************************************************)
(* Proofs about the safety of WorkspaceWatch, for any number of tables,    *)
(* retries and writes, with or without list calls that write.              *)
(***************************************************************************)
EXTENDS WorkspaceWatch, TLAPS

\* The timer is spent before its refresh runs and set again only after it.
TimerOrRefresh == refresh # None => timer = None

\* The silent refresh belongs to the start-up: once there are snapshots,
\* whatever runs or waits to run publishes.
SilentAtStart ==
    /\ initialized => /\ timer # FALSE
                      /\ refresh # None => refresh.publish = TRUE
    /\ ~initialized => snapshots = Nothing

\* What a refresh has read and found changed, the grids have been told.
ReadIsTold ==
    refresh # None =>
        \A t \in Table :
            refresh.next[t] # None /\ snapshots[t] \notin {None, refresh.next[t]}
                => told[t] = refresh.next[t]

IInv == TypeOK /\ TimerOrRefresh /\ SilentAtStart /\ ReadIsTold

-----------------------------------------------------------------------------
\* The invariant holds at the start of the first refresh.
LEMMA InitIInv == Init => IInv
<1> SUFFICES ASSUME Init PROVE IInv
  OBVIOUS
<1> USE WorkspaceWatchAssumption
<1>1. TypeOK
  <2>1. refresh \in Refresh
    BY DEF Init, Refresh, Nothing
  <2>2. dirty \in BOOLEAN /\ mishap \in BOOLEAN
    BY DEF Init
  <2>3. writes \in 0 .. MaxWrites /\ retries \in 0 .. MaxLockedRetries
    BY DEF Init
  <2> QED
    BY <2>1, <2>2, <2>3 DEF Init, TypeOK, Nothing
<1>2. TimerOrRefresh /\ SilentAtStart
  BY DEF Init, TimerOrRefresh, SilentAtStart
<1>3. ReadIsTold
  BY DEF Init, ReadIsTold, Nothing
<1> QED
  BY <1>1, <1>2, <1>3 DEF IInv

\* Files, other programs, polls and the service's end.
LEMMA OutsideIInv ==
    IInv /\ (ExternalWrite \/ HandleFileChange \/ OnModuleDestroy) => IInv'
<1> SUFFICES ASSUME IInv PROVE
        ExternalWrite \/ HandleFileChange \/ OnModuleDestroy => IInv'
  OBVIOUS
<1> USE WorkspaceWatchAssumption
    DEF IInv, TypeOK, TimerOrRefresh, SilentAtStart, ReadIsTold, Nothing
<1>1. ASSUME ExternalWrite PROVE IInv'
  <2> USE <1>1 DEF ExternalWrite
  <2>1. rows' \in [Table -> Rows] /\ listed' \in SUBSET Table
    OBVIOUS
  <2>2. writes' \in 0 .. MaxWrites /\ dirty' \in BOOLEAN
    OBVIOUS
  <2> QED
    BY <2>1, <2>2
<1>2. ASSUME HandleFileChange PROVE IInv'
  BY <1>2 DEF HandleFileChange, ScheduleRefresh, file
<1>3. ASSUME OnModuleDestroy PROVE IInv'
  BY <1>3 DEF OnModuleDestroy, file
<1> QED
  BY <1>1, <1>2, <1>3

\* The refresh takes the flag of the timer, which knew of the start-up.
LEMMA TimerFiresIInv == IInv /\ TimerFires => IInv'
<1> SUFFICES ASSUME IInv, TimerFires PROVE IInv'
  OBVIOUS
<1> USE WorkspaceWatchAssumption DEF IInv, TimerFires, Start, Nothing, file
<1>1. TypeOK'
  BY DEF TypeOK, Refresh
<1>2. TimerOrRefresh' /\ SilentAtStart'
  BY DEF TypeOK, TimerOrRefresh, SilentAtStart
<1>3. ReadIsTold'
  BY DEF ReadIsTold
<1> QED
  BY <1>1, <1>2, <1>3

\* A table that is read and has changed is announced: the refresh
\* publishes, because there are snapshots.
LEMMA ReadTableIInv ==
    ASSUME IInv, NEW t \in Table, ReadTable(t) PROVE IInv'
<1> USE WorkspaceWatchAssumption DEF IInv, ReadTable, file
<1>1. refresh \in Refresh /\ rows[t] \in Rows /\ snapshots[t] \in Rows \cup {None}
  BY DEF TypeOK
<1>2. /\ refresh' \in Refresh
      /\ refresh'.publish = refresh.publish
      /\ refresh'.next = [refresh.next EXCEPT ![t] = rows[t]]
  BY <1>1 DEF Refresh, TypeOK
<1>3. TypeOK'
  BY <1>1, <1>2 DEF TypeOK
<1>4. TimerOrRefresh' /\ SilentAtStart'
  BY <1>1, <1>2 DEF TimerOrRefresh, SilentAtStart, Nothing
<1>5. snapshots[t] \notin {None, rows[t]} => told'[t] = rows[t]
  <2> SUFFICES ASSUME snapshots[t] \notin {None, rows[t]}
               PROVE told'[t] = rows[t]
    OBVIOUS
  <2>1. initialized
    BY DEF SilentAtStart, Nothing, TypeOK
  <2>2. refresh.publish = TRUE
    BY <2>1 DEF SilentAtStart
  <2> QED
    BY <2>2 DEF TypeOK
<1>6. ReadIsTold'
  <2> SUFFICES ASSUME NEW s \in Table, refresh'.next[s] # None,
                      snapshots[s] \notin {None, refresh'.next[s]}
               PROVE told'[s] = refresh'.next[s]
    BY DEF ReadIsTold
  <2>1. CASE s = t
    BY <2>1, <1>1, <1>2, <1>5 DEF Refresh
  <2>2. CASE s # t
    BY <2>2, <1>1, <1>2 DEF Refresh, ReadIsTold, TypeOK
  <2> QED
    BY <2>1, <2>2
<1> QED
  BY <1>3, <1>4, <1>6

\* The end of a refresh keeps the invariant: no timer waits with a flag
\* from before.
LEMMA RefreshDoneIInv == IInv /\ RefreshDone => IInv'
<1> SUFFICES ASSUME IInv, RefreshDone PROVE IInv'
  OBVIOUS
<1> USE WorkspaceWatchAssumption DEF IInv, RefreshDone, file
<1>1. snapshots' \in [Table -> Rows \cup {None}]
  BY DEF TypeOK, Refresh
<1>2. TypeOK'
  BY <1>1 DEF TypeOK
<1>3. TimerOrRefresh'
  BY DEF TimerOrRefresh
<1>4. SilentAtStart'
  BY DEF TimerOrRefresh, SilentAtStart
<1>5. ReadIsTold'
  BY DEF ReadIsTold
<1> QED
  BY <1>2, <1>3, <1>4, <1>5

\* A refresh that fails hands its own flag on, or nothing.
LEMMA RefreshFailsIInv == IInv /\ RefreshFails => IInv'
<1> SUFFICES ASSUME IInv, RefreshFails PROVE IInv'
  OBVIOUS
<1> USE WorkspaceWatchAssumption
    DEF IInv, RefreshFails, Retry, ScheduleRefresh, file
<1>1. refresh \in Refresh /\ refresh.publish \in BOOLEAN
  BY DEF TypeOK, Refresh
<1>2. timer' \in BOOLEAN \cup {None}
  BY <1>1 DEF TypeOK
<1>3. retries' \in 0 .. MaxLockedRetries
  BY DEF TypeOK
<1>4. mishap' \in BOOLEAN
  BY <1>1 DEF TypeOK, Refresh
<1>5. TypeOK'
  BY <1>2, <1>3, <1>4 DEF TypeOK
<1>6. TimerOrRefresh' /\ ReadIsTold'
  BY DEF TimerOrRefresh, ReadIsTold
<1>7. SilentAtStart'
  BY DEF SilentAtStart, Nothing
<1> QED
  BY <1>5, <1>6, <1>7

\* Every step keeps the invariant.
LEMMA NextIInv == IInv /\ [Next]_vars => IInv'
<1> SUFFICES ASSUME IInv, [Next]_vars PROVE IInv'
  OBVIOUS
<1>1. CASE UNCHANGED vars
  BY <1>1 DEF vars, file, IInv, TypeOK, TimerOrRefresh, SilentAtStart,
              ReadIsTold, Nothing
<1>2. CASE Next
  BY <1>2, OutsideIInv, TimerFiresIInv, ReadTableIInv, RefreshDoneIInv,
     RefreshFailsIInv
     DEF Next, RefreshStep
<1> QED
  BY <1>1, <1>2

-----------------------------------------------------------------------------
\* The inductive invariant holds in every reachable state of the service.
THEOREM Invariance == Spec => []IInv
<1>1. Init => IInv
  BY InitIInv
<1>2. IInv /\ [Next]_vars => IInv'
  BY NextIInv
<1> QED
  BY <1>1, <1>2, PTL DEF Spec

\* The service's fields and its refresh keep their shapes; the retries stay
\* within maxLockedRetries.
THEOREM TypeCorrect == Spec => []TypeOK
<1>1. IInv => TypeOK
  BY DEF IInv
<1> QED
  BY <1>1, Invariance, PTL

\* refreshSnapshots never takes a changed table into its snapshots without
\* having announced it.
THEOREM ChangesAreNeverSilent == Spec => NoSilentRefresh
<1> DEFINE Announced == \A t \in Table :
        snapshots[t] # None /\ snapshots'[t] \notin {None, snapshots[t]}
            => told[t] = snapshots'[t]
<1>1. IInv /\ [Next]_vars => [Announced]_vars
  <2> SUFFICES ASSUME IInv, Next PROVE Announced
    OBVIOUS
  <2>1. CASE RefreshDone
    BY <2>1 DEF RefreshDone, IInv, ReadIsTold
  <2>2. CASE UNCHANGED snapshots
    BY <2>2
  <2> QED
    BY <2>1, <2>2
       DEF Next, ExternalWrite, HandleFileChange, TimerFires, RefreshStep,
           ReadTable, RefreshFails, OnModuleDestroy
<1> QED
  BY <1>1, Invariance, PTL DEF Spec, NoSilentRefresh
=============================================================================
