----------------------------- MODULE MCFieldStore -----------------------------
(***************************************************************************)
(* FieldStore on a table with a primary and one more field, one record and *)
(* one view.                                                               *)
(***************************************************************************)
EXTENDS FieldStore

CONSTANTS title, tag, r1, v1, red

MCField == {title, tag}
MCPrimary == {title}
MCRecord == {r1}
MCView == {v1}
MCChoice == {red}
Types == {"singleLineText", "multipleSelect"}
Red == {red}
Offers == {{red}}

AllTypes == {"singleLineText", "singleSelect", "multipleSelect"}
TextsAndLists == {red, {red}}
AllOffers == {{}, {red}}
=============================================================================
