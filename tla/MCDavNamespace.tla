----------------------------- MODULE MCDavNamespace -----------------------------
(* Small trees of two names: two different names, or one name in two cases.     *)
EXTENDS DavNamespace

ExactCase == [n \in 1..2 |-> n]
CaseBlind == [n \in 1..2 |-> 1]

\* Two collections and the files in them.
Flat == {<<1>>, <<2>>, <<1, 1>>, <<1, 2>>, <<2, 1>>, <<2, 2>>}

\* Two collections, one with a collection in it, and room to move it.
Nested == {<<1>>, <<2>>, <<1, 2>>, <<2, 1>>, <<2, 2>>, <<2, 2, 1>>}

\* A collection that holds one of its own name.
Repeated == {<<1, 2>>, <<1, 1, 2>>, <<1, 1, 1, 2>>}
================================================================================
