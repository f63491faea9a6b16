---------------------------- MODULE SqliteCliProofs ----------------------------
(***************************************************************************)
(* A call that returns was atomic, for any number of programs, calls and   *)
(* statements: SqliteCli implements AtomicCalls.                           *)
(***************************************************************************)
EXTENDS SqliteCli, TLAPS

\* The statements a process has read.
ReadSoFar(c) == {Statements[c][k] : k \in 1 .. (at[c] - 1)}

\* Where a process is in its input.
Position ==
    \A c \in Call :
        /\ pc[c] \in {"ready", "begin"} => at[c] = 1 /\ ~erred[c]
        /\ pc[c] = "body" => at[c] <= Len(Statements[c])
        /\ pc[c] \in {"commit", "exit", "returned"} => at[c] = Len(Statements[c]) + 1
        /\ pc[c] \in {"begin", "commit"} => c \in Transactional
        /\ pc[c] = "returned" => ~erred[c]

\* The lock holder is a transaction between its BEGIN and its COMMIT, and
\* only it has uncommitted changes: statements of its own.
Holder ==
    /\ lock # Nobody => lock \in Transactional /\ pc[lock] \in {"body", "commit"}
    /\ lock # Nobody => changed \subseteq ReadSoFar(lock)
    /\ lock = Nobody => changed = {}

\* A transaction that has met no error holds the lock, and every statement
\* it has read is among its changes.
Unbroken ==
    \A c \in Transactional :
        pc[c] \in {"body", "commit"} /\ ~erred[c] =>
            lock = c /\ changed = ReadSoFar(c)

\* spawnSync blocks.
OneAtATime ==
    \A c, d \in Call :
        Running(c) /\ Running(d) /\ c # d => ProgramOf[c] # ProgramOf[d]

IInv == TypeOK /\ Position /\ Holder /\ Unbroken /\ OneAtATime

-----------------------------------------------------------------------------
\* The statements of a call and the cells they write to.
LEMMA StatementFacts ==
    ASSUME NEW c \in Call
    PROVE  /\ Len(Statements[c]) \in Nat \ {0}
           /\ \A k \in 1 .. Len(Statements[c]) : Statements[c][k] \in Cell
           /\ CellsOf(c) \subseteq Cell
BY SqliteCliAssumption DEF CellsOf

\* The invariant holds before any call.
LEMMA InitIInv == Init => IInv
BY StatementFacts, SqliteCliAssumption
DEF Init, IInv, TypeOK, PC, Position, Holder, Unbroken, OneAtATime, Running

\* A new process starts at its first line, alone in its program.
LEMMA SpawnIInv ==
    ASSUME IInv, NEW c \in Call, Spawn(c)
    PROVE  IInv'
<1> USE SqliteCliAssumption, StatementFacts DEF IInv, TypeOK, Spawn
<1>1. TypeOK'
    BY DEF PC
<1>2. Position'
    BY DEF Position
<1>3. \A d \in Call : d # c => pc'[d] = pc[d]
    OBVIOUS
<1>4. c # lock
    BY DEF Holder
<1>5. \A d \in Call : ReadSoFar(d)' = ReadSoFar(d)
    BY DEF ReadSoFar
<1>6. Holder'
    BY <1>3, <1>4, <1>5 DEF Holder
<1>7. Unbroken'
    BY <1>3, <1>5 DEF Unbroken
<1>8. OneAtATime'
    <2> SUFFICES ASSUME NEW d \in Call, NEW e \in Call, d # e,
                        Running(d)', Running(e)'
                 PROVE  ProgramOf[d] # ProgramOf[e]
        BY DEF OneAtATime
    <2>1. \A x \in Call \ {c} : Running(x)' = Running(x)
        BY <1>3 DEF Running
    <2> QED
        BY <2>1 DEF OneAtATime
<1> QED
    BY <1>1, <1>2, <1>6, <1>7, <1>8

\* BEGIN IMMEDIATE takes the lock with nothing changed, or fails.
LEMMA BeginIInv ==
    ASSUME IInv, NEW c \in Call, Begin(c)
    PROVE  IInv'
<1> USE SqliteCliAssumption, StatementFacts DEF IInv, TypeOK, Begin
<1>1. TypeOK'
    BY DEF PC
<1>2. Position'
    BY DEF Position
<1>3. /\ \A d \in Call : ReadSoFar(d)' = ReadSoFar(d)
      /\ ReadSoFar(c) = {}
    BY DEF ReadSoFar, Position
<1>4. \A d \in Call : d # c => pc'[d] = pc[d] /\ erred'[d] = erred[d]
    OBVIOUS
<1>5. c \in Transactional /\ c # lock
    BY DEF Position, Holder
<1>6. Holder'
    BY <1>3, <1>4, <1>5 DEF Holder
<1>7. Unbroken'
    BY <1>3, <1>4, <1>5 DEF Holder, Unbroken
<1>8. OneAtATime'
    BY DEF OneAtATime, Running
<1> QED
    BY <1>1, <1>2, <1>6, <1>7, <1>8

\* One more statement read.
LEMMA ReadOnSoFar ==
    ASSUME IInv, NEW c \in Call, ReadOn(c)
    PROVE  /\ ReadSoFar(c)' = ReadSoFar(c) \cup {Statements[c][at[c]]}
           /\ \A d \in Call \ {c} : ReadSoFar(d)' = ReadSoFar(d)
           /\ at[c] \in DOMAIN Statements[c]
BY SqliteCliAssumption, StatementFacts
DEF IInv, TypeOK, Position, ReadOn, ReadSoFar

\* Reading on keeps a process where its input says.
LEMMA ReadOnPosition ==
    ASSUME IInv, NEW c \in Call, ReadOn(c), erred' \in [Call -> BOOLEAN],
           \A d \in Call \ {c} : erred'[d] = erred[d]
    PROVE  /\ pc' \in [Call -> PC] /\ at' \in [Call -> Nat \ {0}]
           /\ Position'
           /\ OneAtATime'
<1> USE SqliteCliAssumption, StatementFacts DEF IInv, TypeOK, ReadOn
<1>1. pc' \in [Call -> PC] /\ at' \in [Call -> Nat \ {0}]
    BY DEF PC
<1>2. Position'
    <2>1. \A d \in Call \ {c} : pc'[d] = pc[d] /\ at'[d] = at[d]
        OBVIOUS
    <2>2. /\ pc[c] = "body" /\ at[c] <= Len(Statements[c]) /\ at'[c] = at[c] + 1
          /\ at[c] \in Nat /\ Len(Statements[c]) \in Nat
        BY DEF Position
    <2>3. CASE at[c] < Len(Statements[c])
        <3>1. pc'[c] = "body" /\ at'[c] <= Len(Statements[c])
            BY <2>2, <2>3
        <3> QED
            BY <2>1, <3>1 DEF Position
    <2>4. CASE at[c] = Len(Statements[c])
        <3>1. /\ pc'[c] = IF c \in Transactional THEN "commit" ELSE "exit"
              /\ at'[c] = Len(Statements[c]) + 1
            BY <2>2, <2>4
        <3> QED
            BY <2>1, <3>1 DEF Position
    <2> QED
        BY <2>2, <2>3, <2>4
<1>3. OneAtATime'
    BY DEF OneAtATime, Running
<1> QED
    BY <1>1, <1>2, <1>3

\* A statement that succeeds joins the changes of its transaction.
LEMMA ExecuteIInv ==
    ASSUME IInv, NEW c \in Call, Execute(c)
    PROVE  IInv'
<1> USE DEF IInv, TypeOK, Execute
<1>1. /\ pc' \in [Call -> PC] /\ at' \in [Call -> Nat \ {0}]
      /\ Position' /\ OneAtATime'
    BY ReadOnPosition
<1>2. Statements[c][at[c]] \in Cell
    BY ReadOnSoFar, StatementFacts
<1>3. TypeOK'
    BY <1>1, <1>2
<1>4. Holder'
    BY ReadOnSoFar, SqliteCliAssumption, ZenonT(40) DEF Holder, ReadOn, InTransaction
<1>5. Unbroken'
    BY ReadOnSoFar, SqliteCliAssumption
    DEF Holder, Unbroken, ReadOn, InTransaction
<1> QED
    BY <1>1, <1>3, <1>4, <1>5

\* A statement that fails is known to the exit status.
LEMMA FailIInv ==
    ASSUME IInv, NEW c \in Call, Fail(c)
    PROVE  IInv'
<1> USE DEF IInv, TypeOK, Fail
<1>1. /\ pc' \in [Call -> PC] /\ at' \in [Call -> Nat \ {0}]
      /\ Position' /\ OneAtATime'
    BY ReadOnPosition
<1>2. TypeOK'
    BY <1>1
<1>3. Holder'
    <2>1. CASE UNCHANGED <<lock, changed>>
        <3>1. \A d \in Call \ {c} : pc'[d] = pc[d]
            BY DEF ReadOn
        <3>2. c \in Transactional => pc'[c] \in {"body", "commit"}
            BY DEF ReadOn
        <3>3. \A d \in Call : ReadSoFar(d) \subseteq ReadSoFar(d)'
            BY ReadOnSoFar
        <3> QED
            BY <2>1, <3>1, <3>2, <3>3, SqliteCliAssumption DEF Holder
    <2>2. CASE lock' = Nobody /\ changed' = {}
        BY <2>2 DEF Holder
    <2> QED
        BY <2>1, <2>2
<1>4. Unbroken'
    BY ReadOnSoFar, SqliteCliAssumption
    DEF Holder, Unbroken, ReadOn, InTransaction
<1> QED
    BY <1>1, <1>2, <1>3, <1>4

\* A process that leaves its input leaves no lock and no changes behind.
LEMMA EndIInv ==
    ASSUME IInv, NEW c \in Call, Commit(c) \/ Exit(c) \/ Kill(c)
    PROVE  IInv'
<1>1. /\ TypeOK /\ Position /\ Holder /\ Unbroken /\ OneAtATime
      /\ Running(c)
      /\ \E p \in {"exit", "returned", "thrown"} :
            /\ pc' = [pc EXCEPT ![c] = p]
            /\ p = "returned" => ~erred'[c]
            /\ p \in {"exit", "returned"} => pc[c] \in {"commit", "exit"}
      /\ at' = at
      /\ \/ erred' = erred
         \/ erred' = [erred EXCEPT ![c] = TRUE] /\ pc[c] = "commit"
      /\ \/ lock = c /\ lock' = Nobody /\ changed' = {}
         \/ lock # c /\ UNCHANGED <<lock, changed>>
    BY SqliteCliAssumption
    DEF IInv, Commit, Exit, Kill, InTransaction, Running, TypeOK, Holder
<1>2. writer' \in [Cell -> Call \cup {Nobody}]
    BY DEF IInv, TypeOK, Commit, Exit, Kill
<1>3. TypeOK'
    BY <1>1, <1>2 DEF TypeOK, PC
<1>4. Position'
    <2> SUFFICES ASSUME NEW d \in Call
                 PROVE  /\ pc'[d] \in {"ready", "begin"} => at'[d] = 1 /\ ~erred'[d]
                        /\ pc'[d] = "body" => at'[d] <= Len(Statements[d])
                        /\ pc'[d] \in {"commit", "exit", "returned"} =>
                              at'[d] = Len(Statements[d]) + 1
                        /\ pc'[d] \in {"begin", "commit"} => d \in Transactional
                        /\ pc'[d] = "returned" => ~erred'[d]
        BY DEF Position
    <2>1. CASE d = c
        BY <1>1, <2>1 DEF TypeOK, Position
    <2>2. CASE d # c
        BY <1>1, <2>2 DEF TypeOK, Position
    <2> QED
        BY <2>1, <2>2
<1>5. Holder' /\ Unbroken'
    <2>1. \A d \in Call \ {c} : pc'[d] = pc[d] /\ erred'[d] = erred[d]
        BY <1>1 DEF TypeOK
    <2>2. \A d \in Call : ReadSoFar(d)' = ReadSoFar(d)
        BY <1>1 DEF ReadSoFar
    <2>3. pc'[c] \notin {"body", "commit"}
        BY <1>1 DEF TypeOK
    <2>4. Holder'
        BY <1>1, <2>1, <2>2, SqliteCliAssumption DEF TypeOK, Holder
    <2>5. Unbroken'
        BY <1>1, <2>1, <2>2, <2>3, SqliteCliAssumption DEF TypeOK, Unbroken
    <2> QED
        BY <2>4, <2>5
<1>6. OneAtATime'
    BY <1>1 DEF TypeOK, OneAtATime, Running
<1> QED
    BY <1>3, <1>4, <1>5, <1>6 DEF IInv

\* Every step keeps the invariant.
LEMMA NextIInv == IInv /\ [Next]_vars => IInv'
<1> SUFFICES ASSUME IInv, [Next]_vars PROVE IInv'
    OBVIOUS
<1>1. CASE UNCHANGED vars
    BY <1>1 DEF IInv, TypeOK, Position, Holder, Unbroken, OneAtATime,
        ReadSoFar, Running, vars
<1>2. CASE Next
    BY <1>2, SpawnIInv, BeginIInv, ExecuteIInv, FailIInv, EndIInv DEF Next
<1> QED
    BY <1>1, <1>2

\* The parts of a call, by number.
LEMMA PartFacts ==
    ASSUME NEW c \in Call
    PROVE  /\ c \in Transactional =>
                DOMAIN PartsOf(c) = {1} /\ PartsOf(c)[1] = CellsOf(c)
           /\ c \notin Transactional =>
                /\ DOMAIN PartsOf(c) = 1 .. Len(Statements[c])
                /\ \A k \in 1 .. Len(Statements[c]) : PartsOf(c)[k] = {Statements[c][k]}
           /\ UNION {PartsOf(c)[k] : k \in DOMAIN PartsOf(c)} = CellsOf(c)
<1>1. CASE c \in Transactional
    <2>1. PartsOf(c) = <<CellsOf(c)>>
        BY <1>1 DEF PartsOf
    <2>2. DOMAIN PartsOf(c) = {1} /\ PartsOf(c)[1] = CellsOf(c)
        BY <2>1
    <2> QED
        BY <1>1, <2>2
<1>2. CASE c \notin Transactional
    <2>1. Statements[c] \in Seq(Cell)
        BY SqliteCliAssumption
    <2>2. DOMAIN Statements[c] = 1 .. Len(Statements[c])
        BY <2>1
    <2>3. PartsOf(c) = [k \in 1 .. Len(Statements[c]) |-> {Statements[c][k]}]
        BY <1>2, <2>2 DEF PartsOf
    <2>4. CellsOf(c) = {Statements[c][k] : k \in 1 .. Len(Statements[c])}
        BY <2>2 DEF CellsOf
    <2> QED
        BY <1>2, <2>3, <2>4
<1> QED
    BY <1>1, <1>2

\* What AtomicCalls sees of a call follows from its process.
LEMMA CallSeen ==
    /\ \A c \in Call : CallState(c) \in {"pending", "returned", "thrown"}
    /\ \A c \in Call : CallState(c) = "thrown" => Applied(c) = 0
BY DEF CallState, Applied

\* Init and every step, seen through CallState and Applied.
LEMMA InitAtomic == Init => Atomic!Init
BY DEF Init, Atomic!Init, CallState, Applied

\* The call of a step is the only one whose state changes.
LEMMA OthersStay ==
    ASSUME NEW c \in Call,
           \A d \in Call \ {c} :
              pc'[d] = pc[d] /\ erred'[d] = erred[d] /\ at'[d] = at[d]
    PROVE  \A d \in Call \ {c} :
              CallState(d)' = CallState(d) /\ Applied(d)' = Applied(d)
BY DEF CallState, Applied

\* A step that leaves the committed file alone and moves call c from a state
\* to itself, from pending to thrown, or to returned when all is applied.
LEMMA QuietStep ==
    ASSUME NEW c \in Call, UNCHANGED writer,
           \A d \in Call \ {c} :
              pc'[d] = pc[d] /\ erred'[d] = erred[d] /\ at'[d] = at[d],
           \/ CallState(c)' = CallState(c) /\ Applied(c)' = Applied(c)
           \/ CallState(c)' = "thrown" /\ CallState(c) # "returned"
           \/ /\ CallState(c)' = "returned" /\ CallState(c) = "pending"
              /\ Applied(c)' = Applied(c)
              /\ Applied(c) + 1 \notin DOMAIN PartsOf(c)
    PROVE  [Atomic!Next]_Atomic!avars
<1> DEFINE state == [d \in Call |-> CallState(d)]
           applied == [d \in Call |-> Applied(d)]
<1>1. \A d \in Call \ {c} : CallState(d)' = CallState(d) /\ Applied(d)' = Applied(d)
    BY OthersStay
<1>2. CallState(c) \in {"pending", "returned", "thrown"}
    BY CallSeen
<1>3. CASE CallState(c)' = CallState(c) /\ Applied(c)' = Applied(c)
    <2>1. state' = state /\ applied' = applied
        BY <1>1, <1>3
    <2> QED
        BY <2>1 DEF Atomic!avars
<1>4. CASE CallState(c)' = "thrown" /\ CallState(c) = "pending"
    <2>1. Applied(c)' = 0
        BY <1>4 DEF Applied, CallState
    <2>2. /\ state' = [state EXCEPT ![c] = "thrown"]
          /\ applied' = [applied EXCEPT ![c] = 0]
        BY <1>1, <1>4, <2>1
    <2>3. Atomic!GiveUp(c)
        BY <1>4, <2>2 DEF Atomic!GiveUp
    <2> QED
        BY <2>3 DEF Atomic!Next
<1>5. CASE CallState(c)' = "thrown" /\ CallState(c) = "thrown"
    <2>1. Applied(c)' = 0 /\ Applied(c) = 0
        BY <1>5 DEF Applied, CallState
    <2> QED
        BY <1>3, <1>5, <2>1
<1>6. CASE /\ CallState(c)' = "returned" /\ CallState(c) = "pending"
           /\ Applied(c)' = Applied(c)
           /\ Applied(c) + 1 \notin DOMAIN PartsOf(c)
    <2>1. /\ state' = [state EXCEPT ![c] = "returned"]
          /\ applied' = applied
        BY <1>1, <1>6
    <2>2. Atomic!Return(c)
        BY <1>6, <2>1 DEF Atomic!Return, Atomic!NextPart
    <2> QED
        BY <2>2 DEF Atomic!Next
<1> QED
    BY <1>2, <1>3, <1>4, <1>5, <1>6

\* A step that commits something for call c: the next of its parts, or any
\* part of it for a call known to throw.
LEMMA WritingStep ==
    ASSUME NEW c \in Call, NEW cells \in SUBSET CellsOf(c),
           writer' = [x \in Cell |-> IF x \in cells THEN c ELSE writer[x]],
           \A d \in Call \ {c} :
              pc'[d] = pc[d] /\ erred'[d] = erred[d] /\ at'[d] = at[d],
           \/ CallState(c) = "thrown" /\ CallState(c)' = "thrown"
           \/ /\ CallState(c) = "pending" /\ CallState(c)' = "pending"
              /\ Applied(c)' = Applied(c) + 1
              /\ Applied(c)' \in DOMAIN PartsOf(c)
              /\ cells = PartsOf(c)[Applied(c)']
    PROVE  Atomic!Next
<1> DEFINE state == [d \in Call |-> CallState(d)]
           applied == [d \in Call |-> Applied(d)]
           Parts == [d \in Call |-> PartsOf(d)]
<1>1. \A d \in Call \ {c} : CallState(d)' = CallState(d) /\ Applied(d)' = Applied(d)
    BY OthersStay
<1>2. CASE CallState(c) = "thrown" /\ CallState(c)' = "thrown"
    <2>1. Applied(c)' = 0 /\ Applied(c) = 0
        BY <1>2 DEF Applied, CallState
    <2>2. state' = state /\ applied' = applied
        BY <1>1, <1>2, <2>1
    <2>3. cells \in SUBSET UNION {Parts[c][k] : k \in DOMAIN Parts[c]}
        BY PartFacts
    <2>4. Atomic!Tear(c)
        BY <1>2, <2>2, <2>3 DEF Atomic!Tear, Atomic!Written
    <2> QED
        BY <2>4 DEF Atomic!Next
<1>3. CASE /\ CallState(c) = "pending" /\ CallState(c)' = "pending"
           /\ Applied(c)' = Applied(c) + 1
           /\ Applied(c)' \in DOMAIN PartsOf(c)
           /\ cells = PartsOf(c)[Applied(c)']
    <2>1. state' = state /\ applied' = [applied EXCEPT ![c] = @ + 1]
        BY <1>1, <1>3
    <2>2. Atomic!Apply(c)
        BY <1>3, <2>1 DEF Atomic!Apply, Atomic!Written, Atomic!NextPart
    <2> QED
        BY <2>2 DEF Atomic!Next
<1> QED
    BY <1>2, <1>3

\* Every step is a step of AtomicCalls or changes nothing it sees.
LEMMA NextAtomic == IInv /\ [Next]_vars => [Atomic!Next]_Atomic!avars
<1> SUFFICES ASSUME IInv, [Next]_vars
             PROVE  [Atomic!Next]_Atomic!avars
    OBVIOUS
<1> USE DEF IInv, TypeOK
<1>1. CASE UNCHANGED vars
    BY <1>1 DEF vars, Atomic!avars, CallState, Applied
<1>2. ASSUME NEW c \in Call, Spawn(c) \/ Begin(c) \/ Fail(c)
      PROVE  [Atomic!Next]_Atomic!avars
    <2>1. /\ UNCHANGED writer
          /\ \A d \in Call \ {c} :
                pc'[d] = pc[d] /\ erred'[d] = erred[d] /\ at'[d] = at[d]
        BY <1>2 DEF Spawn, Begin, Fail, ReadOn
    <2>2. \/ CallState(c)' = CallState(c) /\ Applied(c)' = Applied(c)
          \/ CallState(c)' = "thrown" /\ CallState(c) # "returned"
        BY <1>2 DEF Spawn, Begin, Fail, ReadOn, CallState, Applied
    <2> QED
        BY <2>1, <2>2, QuietStep
<1>3. ASSUME NEW c \in Call, Kill(c)
      PROVE  [Atomic!Next]_Atomic!avars
    <2>1. /\ UNCHANGED writer
          /\ \A d \in Call \ {c} :
                pc'[d] = pc[d] /\ erred'[d] = erred[d] /\ at'[d] = at[d]
        BY <1>3 DEF Kill
    <2>2. CallState(c)' = "thrown" /\ CallState(c) # "returned"
        BY <1>3 DEF Kill, CallState, Running
    <2> QED
        BY <2>1, <2>2, QuietStep
<1>4. ASSUME NEW c \in Call, Exit(c)
      PROVE  [Atomic!Next]_Atomic!avars
    <2>1. /\ UNCHANGED writer
          /\ \A d \in Call \ {c} :
                pc'[d] = pc[d] /\ erred'[d] = erred[d] /\ at'[d] = at[d]
        BY <1>4 DEF Exit
    <2>2. CASE erred[c]
        <3>1. CallState(c)' = "thrown" /\ CallState(c) # "returned"
            BY <1>4, <2>2 DEF Exit, CallState
        <3> QED
            BY <2>1, <3>1, QuietStep
    <2>3. CASE ~erred[c]
        <3>1. /\ pc[c] = "exit" /\ pc'[c] = "returned"
              /\ at[c] = Len(Statements[c]) + 1 /\ at'[c] = at[c]
            BY <1>4, <2>3 DEF Exit, Position
        <3>2. CallState(c) = "pending" /\ CallState(c)' = "returned"
            BY <2>3, <3>1 DEF CallState
        <3>3. Applied(c) = (IF c \in Transactional THEN 1 ELSE at[c] - 1)
            BY <3>1, <3>2 DEF Applied
        <3>4. Applied(c)' = (IF c \in Transactional THEN 1 ELSE at[c] - 1)
            BY <3>1, <3>2 DEF Applied
        <3>5. Applied(c) + 1 \notin DOMAIN PartsOf(c)
            BY <3>1, <3>3, PartFacts, StatementFacts
        <3> QED
            BY <2>1, <3>2, <3>3, <3>4, <3>5, QuietStep
    <2> QED
        BY <2>2, <2>3
<1>5. ASSUME NEW c \in Call, Commit(c)
      PROVE  [Atomic!Next]_Atomic!avars
    <2>1. \A d \in Call \ {c} :
             pc'[d] = pc[d] /\ erred'[d] = erred[d] /\ at'[d] = at[d]
        BY <1>5 DEF Commit
    <2>2. CASE InTransaction(c)
        <3>1. changed \subseteq CellsOf(c)
            BY <1>5, <2>2, SqliteCliAssumption, StatementFacts, SMTT(20)
            DEF InTransaction, Holder, ReadSoFar, CellsOf, Position, Commit
        <3>2. writer' = [x \in Cell |-> IF x \in changed THEN c ELSE writer[x]]
            BY <1>5, <2>2, SqliteCliAssumption DEF Commit
        <3>3. CASE erred[c]
            <4>1. CallState(c) = "thrown" /\ CallState(c)' = "thrown"
                BY <1>5, <2>2, <3>3 DEF Commit, CallState
            <4> QED
                BY <2>1, <3>1, <3>2, <4>1, WritingStep
        <3>4. CASE ~erred[c]
            <4>1. CallState(c) = "pending" /\ CallState(c)' = "pending"
                BY <1>5, <2>2, <3>4 DEF Commit, CallState
            <4>2. c \in Transactional
                BY <1>5 DEF Commit, Position
            <4>3. pc[c] = "commit" /\ pc'[c] = "exit"
                BY <1>5 DEF Commit
            <4>4. Applied(c) = 0 /\ Applied(c)' = 1
                BY <4>1, <4>2, <4>3 DEF Applied
            <4>5. changed = CellsOf(c)
                BY <1>5, <3>4, SqliteCliAssumption, StatementFacts
                DEF Commit, Unbroken, Position, ReadSoFar, CellsOf
            <4>6. /\ Applied(c)' = Applied(c) + 1
                  /\ Applied(c)' \in DOMAIN PartsOf(c)
                  /\ changed = PartsOf(c)[Applied(c)']
                BY <4>2, <4>4, <4>5, PartFacts
            <4> QED
                BY <2>1, <3>1, <3>2, <4>1, <4>6, WritingStep
        <3> QED
            BY <3>3, <3>4
    <2>3. CASE ~InTransaction(c)
        <3>1. UNCHANGED writer /\ CallState(c)' = "thrown"
            BY <1>5, <2>3 DEF Commit, CallState
        <3>2. CallState(c) # "returned"
            BY <1>5 DEF Commit, CallState
        <3> QED
            BY <2>1, <3>1, <3>2, QuietStep
    <2> QED
        BY <2>2, <2>3
<1>6. ASSUME NEW c \in Call, Execute(c)
      PROVE  [Atomic!Next]_Atomic!avars
    <2>1. /\ \A d \in Call \ {c} :
                pc'[d] = pc[d] /\ erred'[d] = erred[d] /\ at'[d] = at[d]
          /\ erred' = erred
        BY <1>6 DEF Execute, ReadOn
    <2>2. /\ pc[c] = "body" /\ at'[c] = at[c] + 1
          /\ pc'[c] \in {"body", "commit", "exit"}
          /\ pc'[c] = "exit" => c \notin Transactional
        BY <1>6 DEF Execute, ReadOn
    <2>3. /\ at[c] \in 1 .. Len(Statements[c])
          /\ {Statements[c][at[c]]} \in SUBSET CellsOf(c)
        BY <1>6, SqliteCliAssumption, StatementFacts, ReadOnSoFar
        DEF Execute, CellsOf, ReadOn, Position
    <2>4. CASE InTransaction(c)
        <3>1. c \in Transactional
            BY <2>4, SqliteCliAssumption DEF InTransaction, Holder
        <3>2. UNCHANGED writer
            BY <1>6, <2>4, SqliteCliAssumption DEF Execute, InTransaction
        <3>3. CallState(c)' = CallState(c) /\ Applied(c)' = Applied(c)
            BY <2>1, <2>2, <3>1 DEF CallState, Applied
        <3> QED
            BY <2>1, <3>2, <3>3, QuietStep
    <2>5. CASE ~InTransaction(c)
        <3> DEFINE cells == {Statements[c][at[c]]}
        <3>1. writer' = [x \in Cell |-> IF x \in cells THEN c ELSE writer[x]]
            BY <1>6, <2>5 DEF Execute
        <3>2. CASE erred[c]
            <4>1. CallState(c) = "thrown" /\ CallState(c)' = "thrown"
                BY <2>1, <2>2, <3>2 DEF CallState
            <4> QED
                BY <2>1, <2>3, <3>1, <4>1, WritingStep
        <3>3. CASE ~erred[c]
            <4>1. c \notin Transactional
                BY <2>2, <2>5, <3>3 DEF Unbroken, InTransaction
            <4>2. CallState(c) = "pending" /\ CallState(c)' = "pending"
                BY <2>1, <2>2, <3>3 DEF CallState
            <4>3. Applied(c) = at[c] - 1 /\ Applied(c)' = at[c]
                BY <2>2, <4>1, <4>2 DEF Applied
            <4>4. at[c] \in DOMAIN PartsOf(c) /\ PartsOf(c)[at[c]] = cells
                BY <2>3, <4>1, PartFacts
            <4>5. at[c] - 1 + 1 = at[c]
                BY <2>3
            <4>6. /\ Applied(c)' = Applied(c) + 1
                  /\ Applied(c)' \in DOMAIN PartsOf(c)
                  /\ cells = PartsOf(c)[Applied(c)']
                BY <4>3, <4>4, <4>5
            <4>7. cells \in SUBSET CellsOf(c)
                BY <2>3
            <4> HIDE DEF cells
            <4> QED
                BY <2>1, <3>1, <4>2, <4>6, <4>7, WritingStep
        <3> QED
            BY <3>2, <3>3
    <2> QED
        BY <2>4, <2>5
<1> QED
    BY <1>1, <1>2, <1>3, <1>4, <1>5, <1>6 DEF Next

\* The processes of the shell are where the invariant says, always.
THEOREM Invariance == Spec => []IInv
BY InitIInv, NextIInv, PTL DEF Spec

\* Processes, lock and database file keep their shapes.
THEOREM TypeCorrect == Spec => []TypeOK
<1>1. IInv => TypeOK
    BY DEF IInv
<1> QED
    BY <1>1, Invariance, PTL

\* A program never finds the lock taken by a call of its own.
THEOREM NoOwnContention == Spec => []OwnCallsNeverContend
<1>1. IInv => OwnCallsNeverContend
    BY SqliteCliAssumption
    DEF IInv, TypeOK, Holder, OneAtATime, OwnCallsNeverContend, Running
<1> QED
    BY <1>1, Invariance, PTL

\* A transaction that returns was atomic, a plain run was so statement by statement.
THEOREM Atomicity == Spec => CallsAreAtomic
BY InitAtomic, NextAtomic, Invariance, PTL
DEF Spec, CallsAreAtomic, Atomic!Spec
=============================================================================
