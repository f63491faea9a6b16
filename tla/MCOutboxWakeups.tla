--------------------------- MODULE MCOutboxWakeups ---------------------------
(***************************************************************************)
(* OutboxWakeups on two families of small instances: two rows and one      *)
(* fault, or one row and MaxFaults of them.                                *)
(***************************************************************************)
EXTENDS OutboxWakeups

TwoRows == row = [t \in Task |-> "none"] /\ faults = MaxFaults - 1 /\ paused = "no"
OneRow  == row = [t \in Task |-> IF t = 1 THEN "none" ELSE "done"] /\ faults = 0 /\ paused = "indefinite"

MCInit == Init /\ (TwoRows \/ OneRow)
MCSpec == MCInit /\ [][Next]_vars /\ Fairness
=============================================================================
