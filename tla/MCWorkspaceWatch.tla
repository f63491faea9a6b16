--------------------------- MODULE MCWorkspaceWatch ---------------------------
(***************************************************************************)
(* WorkspaceWatch on two tables.                                           *)
(***************************************************************************)
EXTENDS WorkspaceWatch

CONSTANTS t1, t2, old, new

MCTable == {t1, t2}
MCRows == {old, new}
=============================================================================
