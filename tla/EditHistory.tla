----------------------------- MODULE EditHistory -----------------------------
(***************************************************************************)
(* What an editor promises about undo and redo: the versions of a          *)
(* document lie on one line, an edit forgets the versions ahead and adds   *)
(* one, undo and redo walk one version back and forth, and the document    *)
(* shown is always the version the cursor stands on.                       *)
(***************************************************************************)
EXTENDS Naturals, Sequences

CONSTANT Document

VARIABLES versions, cursor, document

hvars == <<versions, cursor, document>>

Init ==
    /\ document \in Document
    /\ versions = <<document>>
    /\ cursor = 1

Edit ==
    /\ document' \in Document
    /\ versions' = Append(SubSeq(versions, 1, cursor), document')
    /\ cursor' = cursor + 1

Undo ==
    /\ cursor > 1
    /\ cursor' = cursor - 1
    /\ document' = versions[cursor - 1]
    /\ UNCHANGED versions

Redo ==
    /\ cursor < Len(versions)
    /\ cursor' = cursor + 1
    /\ document' = versions[cursor + 1]
    /\ UNCHANGED versions

Next == Edit \/ Undo \/ Redo

Spec == Init /\ [][Next]_hvars
=============================================================================
