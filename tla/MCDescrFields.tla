--------------------------- MODULE MCDescrFields ---------------------------
(* Small instances of DescrFields: a number, void descriptors of two fields, *)
(* copies, subarrays and one level of nesting.                               *)
EXTENDS DescrFields

MCOrders == <<"=">>
MCEndings == {"S", "|"}

F(name, title) == [name |-> name, title |-> title]
\* A plain list, one whose first field has a title, one that is refused half way.
MCLists == {<<F("a", None), F("b", None)>>, <<F("a", "t"), F("b", None)>>, <<F("a", "t"), F("t", None)>>}
OneList == {<<F("a", None), F("b", None)>>}

FreshNames == {<<"c", "d">>}
Permuted == {<<"b", "a">>}
=============================================================================
