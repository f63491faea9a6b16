-------------------------- MODULE MCComputedOutbox --------------------------
(* Small instances of ComputedOutbox. *)
EXTENDS ComputedOutbox, TLC

CONSTANTS r1, r2

Whole     == [s \in Stage |-> Cardinality(Record)]
OneByOne  == [s \in Stage |-> 1]
OneShard  == [r \in Record |-> 0]
NoStages  == {}
AllStages == Stage
AnyChunks(S, n) == CHOOSE f \in Chunkings(S, n) : TRUE
Workers   == Permutations(Worker)
=============================================================================
