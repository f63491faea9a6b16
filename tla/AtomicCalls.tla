------------------------------ MODULE AtomicCalls ------------------------------
(***************************************************************************)
(* What the repository relies on when it hands statements to SqliteCli: a  *)
(* call that returns has made its changes part by part, each part in one   *)
(* step, whatever other programs did to the file meanwhile.  transaction() *)
(* has one part, all it writes; run() has one for every statement.  A call *)
(* that throws promises nothing: it may have made all of its changes, some *)
(* of them, or none, in any number of steps.                               *)
(***************************************************************************)
EXTENDS Naturals

CONSTANTS
    Call,       \* the calls made
    Cell,       \* the places of the database they write to
    Parts,      \* [Call -> Seq(SUBSET Cell)]: what each part writes
    Nobody      \* not a call: the cell was never written

VARIABLES
    writer,     \* per cell, the call whose value it holds
    state,      \* per call: pending, returned or thrown
    applied     \* per call, the parts applied; 0 once it is known to throw

avars == <<writer, state, applied>>

Written(c, cells) == [x \in Cell |-> IF x \in cells THEN c ELSE writer[x]]

NextPart(c) == applied[c] + 1

Init ==
    /\ writer = [x \in Cell |-> Nobody]
    /\ state = [c \in Call |-> "pending"]
    /\ applied = [c \in Call |-> 0]

Apply(c) ==
    /\ state[c] = "pending"
    /\ NextPart(c) \in DOMAIN Parts[c]
    /\ writer' = Written(c, Parts[c][NextPart(c)])
    /\ applied' = [applied EXCEPT ![c] = @ + 1]
    /\ UNCHANGED state

Return(c) ==
    /\ state[c] = "pending"
    /\ NextPart(c) \notin DOMAIN Parts[c]
    /\ state' = [state EXCEPT ![c] = "returned"]
    /\ UNCHANGED <<writer, applied>>

\* From here on the call is known to throw.
GiveUp(c) ==
    /\ state[c] = "pending"
    /\ state' = [state EXCEPT ![c] = "thrown"]
    /\ applied' = [applied EXCEPT ![c] = 0]
    /\ UNCHANGED writer

Tear(c) ==
    /\ state[c] = "thrown"
    /\ \E cells \in SUBSET UNION {Parts[c][k] : k \in DOMAIN Parts[c]} :
          writer' = Written(c, cells)
    /\ UNCHANGED <<state, applied>>

Next == \E c \in Call : Apply(c) \/ Return(c) \/ GiveUp(c) \/ Tear(c)

Spec == Init /\ [][Next]_avars
=============================================================================
