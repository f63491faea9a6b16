---------------------------- MODULE ComputedCells ----------------------------
(***************************************************************************)
(* What a reader of a table is promised of computed cells, whatever queue  *)
(* and workers are behind them.  Each cell shows a version of the source;  *)
(* an edit makes a new version and may bring the first k stages along;     *)
(* apart from that a cell only moves forward, to a version its input has   *)
(* had, never past it and never back.  The exception is a record that two  *)
(* transactions handled at once at a stage, without keeping each other out *)
(* (`crossed'): there and at the stages after it anything older may show.  *)
(***************************************************************************)
EXTENDS Naturals

CONSTANTS Record, Stages

Stage == 1..Stages

VARIABLES src, comp, crossed

cells == <<src, comp, crossed>>

In(s, r) == IF s = 1 THEN src[r] ELSE comp[s - 1][r]

Init ==
  /\ src = [r \in Record |-> 0]
  /\ comp = [s \in Stage |-> [r \in Record |-> 0]]
  /\ crossed = {}

\* Record r was crossed at stage s or before it.
CrossedUpTo(s, r) == \E c \in crossed : c[1] \in 1..s /\ c[2] = r

Edit(R, k) ==
  /\ src' = [r \in Record |-> IF r \in R THEN src[r] + 1 ELSE src[r]]
  /\ comp' = [s \in Stage |-> [r \in Record |->
                IF s <= k /\ r \in R THEN src[r] + 1 ELSE comp[s][r]]]
  /\ crossed \subseteq crossed'

Cross ==
  /\ UNCHANGED <<src, comp>>
  /\ crossed \subseteq crossed'

CatchUp(s) ==
  /\ UNCHANGED <<src, crossed>>
  /\ \A r \in Record :
       comp'[s][r] \in IF CrossedUpTo(s, r) THEN 0..src[r] ELSE comp[s][r]..In(s, r)
  /\ comp' = [comp EXCEPT ![s] = comp'[s]]

Next ==
  \/ \E R \in SUBSET Record, k \in 0..Stages : Edit(R, k)
  \/ Cross
  \/ \E s \in Stage : CatchUp(s)

Spec == Init /\ [][Next]_cells
=============================================================================
