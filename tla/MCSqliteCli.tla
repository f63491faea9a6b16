------------------------------ MODULE MCSqliteCli ------------------------------
(***************************************************************************)
(* SqliteCli with a backend that makes two transactions and a second       *)
(* program that makes a transaction and a plain run of two statements, on  *)
(* two rows and the index row of the first.                                *)
(***************************************************************************)
EXTENDS SqliteCli

CONSTANTS b1, b2, o1, o2, backend, other, row1, fts1, row2

MCCall == {b1, b2, o1, o2}
MCProgram == {backend, other}
MCProgramOf ==
    [c \in MCCall |-> IF c \in {b1, b2} THEN backend ELSE other]
MCCell == {row1, fts1, row2}
MCStatements ==
    [c \in MCCall |->
        CASE c = b1 -> <<row1, fts1>>
          [] c = b2 -> <<row1, fts1, row2>>
          [] c = o1 -> <<fts1, row1>>
          [] c = o2 -> <<row2, row1>>]
MCTransactional == {b1, b2, o1}
=============================================================================
