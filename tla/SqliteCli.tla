------------------------------- MODULE SqliteCli -------------------------------
(***************************************************************************)
(* packages/mochi-sqlite/src/sqlite-cli.mjs: every write of the repository *)
(* is a process of its own, `sqlite3 <file>`, that reads its statements    *)
(* from a pipe.  SqliteCli.transaction puts BEGIN IMMEDIATE and COMMIT     *)
(* around them, SqliteCli.run sends them as they are.                      *)
(*                                                                         *)
(* The shell is external and modelled as it is started here: no `.bail`,   *)
(* so it reads on after an error and only its exit status tells; no busy   *)
(* timeout, so a write that finds the write lock taken fails at once;      *)
(* write-ahead log (schema.sql), so readers see the committed file and     *)
(* hold up nobody.                                                         *)
(*                                                                         *)
(* spawnSync blocks the program that makes a call until the call ends;     *)
(* other programs (a second backend, an agent, a script) go on.            *)
(***************************************************************************)
EXTENDS Naturals, Sequences

CONSTANTS
    Call,           \* the calls made, each at most once
    Program,        \* the programs that make them
    ProgramOf,      \* [Call -> Program]
    Cell,           \* the places of the database they write to
    Statements,     \* [Call -> Seq(Cell)]: what each statement writes to
    Transactional,  \* calls of transaction(); the others are plain run()s
    Nobody          \* not a call: the cell was never written

ASSUME SqliteCliAssumption ==
    /\ ProgramOf \in [Call -> Program]
    /\ Statements \in [Call -> Seq(Cell) \ {<<>>}]
    /\ Transactional \subseteq Call
    /\ Nobody \notin Call

VARIABLES
    writer,     \* the committed database: per cell, the call that wrote it
    lock,       \* the call whose process holds the write lock, or Nobody
    changed,    \* cells written by the lock holder and not committed
    pc,         \* where a call's process is
    at,         \* the statement it reads next
    erred       \* whether the shell has met an error

vars == <<writer, lock, changed, pc, at, erred>>

PC == {"ready", "begin", "body", "commit", "exit", "returned", "thrown"}

Running(c) == pc[c] \in {"begin", "body", "commit", "exit"}
InTransaction(c) == lock = c

Init ==
    /\ writer = [x \in Cell |-> Nobody]
    /\ lock = Nobody
    /\ changed = {}
    /\ pc = [c \in Call |-> "ready"]
    /\ at = [c \in Call |-> 1]
    /\ erred = [c \in Call |-> FALSE]

\* Mutant of Spawn: spawn for spawnSync, the caller goes on at once.
SpawnAsync(c) ==
    /\ pc[c] = "ready"
    /\ pc' = [pc EXCEPT ![c] = IF c \in Transactional THEN "begin" ELSE "body"]
    /\ UNCHANGED <<writer, lock, changed, at, erred>>

Spawn(c) ==
    /\ pc[c] = "ready"
    /\ \A d \in Call : ProgramOf[d] = ProgramOf[c] => ~Running(d)
    /\ pc' = [pc EXCEPT ![c] = IF c \in Transactional THEN "begin" ELSE "body"]
    /\ UNCHANGED <<writer, lock, changed, at, erred>>

\* Mutant of Begin: the lock belongs to the program, not to the call.
BeginForProgram(c) ==
    /\ pc[c] = "begin"
    /\ pc' = [pc EXCEPT ![c] = "body"]
    /\ lock = Nobody
    /\ lock' = ProgramOf[c]
    /\ UNCHANGED <<writer, changed, at, erred>>

Begin(c) ==
    /\ pc[c] = "begin"
    /\ pc' = [pc EXCEPT ![c] = "body"]
    /\ \/ /\ lock = Nobody
          /\ lock' = c
          /\ UNCHANGED erred
       \/ /\ lock # Nobody
          /\ erred' = [erred EXCEPT ![c] = TRUE]
          /\ UNCHANGED lock
    /\ UNCHANGED <<writer, changed, at>>

\* The shell moves on to the next line, whatever became of this one.
ReadOn(c) ==
    /\ pc[c] = "body"
    /\ at' = [at EXCEPT ![c] = @ + 1]
    /\ pc' = IF at[c] < Len(Statements[c]) THEN pc
             ELSE [pc EXCEPT ![c] = IF c \in Transactional THEN "commit"
                                                           ELSE "exit"]

\* Inside a transaction a statement waits for COMMIT; outside (a run(), or a
\* transaction whose BEGIN failed) it commits by itself if the lock is free.
Execute(c) ==
    /\ ReadOn(c)
    /\ \/ /\ InTransaction(c)
          /\ changed' = changed \cup {Statements[c][at[c]]}
          /\ UNCHANGED writer
       \/ /\ lock = Nobody
          /\ writer' = [writer EXCEPT ![Statements[c][at[c]]] = c]
          /\ UNCHANGED changed
    /\ UNCHANGED <<lock, erred>>

\* A constraint fails or the lock is taken: the statement alone is undone.
\* A full disk or an I/O error may roll the whole transaction back, and what
\* follows runs without one.
Fail(c) ==
    /\ ReadOn(c)
    /\ erred' = [erred EXCEPT ![c] = TRUE]
    /\ \/ UNCHANGED <<lock, changed>>
       \/ /\ InTransaction(c)
          /\ lock' = Nobody
          /\ changed' = {}
    /\ UNCHANGED writer

Commit(c) ==
    /\ pc[c] = "commit"
    /\ pc' = [pc EXCEPT ![c] = "exit"]
    /\ \/ /\ InTransaction(c)
          /\ writer' = [x \in Cell |-> IF x \in changed THEN c ELSE writer[x]]
          /\ lock' = Nobody
          /\ changed' = {}
          /\ UNCHANGED erred
       \/ /\ ~InTransaction(c)
          /\ erred' = [erred EXCEPT ![c] = TRUE]
          /\ UNCHANGED <<writer, lock, changed>>
    /\ UNCHANGED at

\* Mutant of Exit: the exit status is not looked at.
ExitUnchecked(c) ==
    /\ pc[c] = "exit"
    /\ pc' = [pc EXCEPT ![c] = "returned"]
    /\ UNCHANGED <<writer, lock, changed, at, erred>>

\* result.status !== 0 throws.
Exit(c) ==
    /\ pc[c] = "exit"
    /\ pc' = [pc EXCEPT ![c] = IF erred[c] THEN "thrown" ELSE "returned"]
    /\ UNCHANGED <<writer, lock, changed, at, erred>>

\* The process dies (status null throws too); SQLite rolls its transaction
\* back before the next writer gets the lock.
Kill(c) ==
    /\ Running(c)
    /\ pc' = [pc EXCEPT ![c] = "thrown"]
    /\ IF InTransaction(c)
       THEN lock' = Nobody /\ changed' = {}
       ELSE UNCHANGED <<lock, changed>>
    /\ UNCHANGED <<writer, at, erred>>

Next ==
    \E c \in Call :
        \/ Spawn(c)
        \/ Begin(c)
        \/ Execute(c)
        \/ Fail(c)
        \/ Commit(c)
        \/ Exit(c)
        \/ Kill(c)

Spec == Init /\ [][Next]_vars

CellsOf(c) == {Statements[c][k] : k \in DOMAIN Statements[c]}

\* COMMIT makes one part of a transaction; each statement of a plain run commits by itself.
PartsOf(c) ==
    IF c \in Transactional THEN <<CellsOf(c)>>
    ELSE [k \in DOMAIN Statements[c] |-> {Statements[c][k]}]

\* A call is known to throw from its first error on; that it never returns then is
\* Exit's part.
CallState(c) ==
    CASE pc[c] = "returned" -> "returned"
      [] pc[c] # "returned" /\ (erred[c] \/ pc[c] = "thrown") -> "thrown"
      [] OTHER -> "pending"

Applied(c) ==
    CASE CallState(c) = "thrown" -> 0
      [] CallState(c) # "thrown" /\ c \in Transactional ->
            IF pc[c] \in {"exit", "returned"} THEN 1 ELSE 0
      [] OTHER -> at[c] - 1

Atomic == INSTANCE AtomicCalls WITH
    Parts <- [c \in Call |-> PartsOf(c)],
    state <- [c \in Call |-> CallState(c)],
    applied <- [c \in Call |-> Applied(c)]

-----------------------------------------------------------------------------
\* Type invariant: the shell's processes and the database file.
TypeOK ==
    /\ writer \in [Cell -> Call \cup {Nobody}]
    /\ lock \in Call \cup {Nobody}
    /\ changed \in SUBSET Cell
    /\ pc \in [Call -> PC]
    /\ at \in [Call -> Nat \ {0}]
    /\ erred \in [Call -> BOOLEAN]

\* However many programs write the file, whatever statement fails and
\* whichever process is killed: a transaction that returns changed everything
\* it was asked to in one step, and a plain run every statement's part in one.
\* Only a call that throws is seen in other parts than these.
CallsAreAtomic == Atomic!Spec

\* A program never finds the lock taken by a call of its own: the backend,
\* alone on its file, gets no busy error.
OwnCallsNeverContend ==
    \A c \in Call :
        Running(c) /\ lock \notin {c, Nobody} => ProgramOf[lock] # ProgramOf[c]
=============================================================================
