---------------------------- MODULE MCComputedJobs ----------------------------
(***************************************************************************)
(* ComputedJobs with two workers behind one backend and a third behind     *)
(* another one on the same file.                                           *)
(***************************************************************************)
EXTENDS ComputedJobs, TLC

CONSTANTS j1, j2, w1, w2, w3, backend, other

MCJob == {j1, j2}
MCWorker == {w1, w2, w3}
MCBackend == {backend, other}
MCBackendOf == [w \in MCWorker |-> IF w = w3 THEN other ELSE backend]
Symmetry == Permutations(MCJob) \cup Permutations({w1, w2})
=============================================================================
