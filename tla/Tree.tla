--------------------------------- MODULE Tree ---------------------------------
(***************************************************************************)
(* What WebDAV clients may expect of a bucket seen as a tree of files       *)
(* (docs/superpowers/specs/2026-05-23-tgnas-webdav-design.md:274-291): a    *)
(* request takes effect in one step; a copy or a move puts every file below *)
(* the source at the same place below the destination, all at once, and     *)
(* touches nothing else.  DavNamespace implements it.                       *)
(*                                                                         *)
(* A path is a sequence of names; the name 0 at its end marks the path of   *)
(* a directory itself.                                                      *)
(***************************************************************************)
EXTENDS Naturals, Sequences

CONSTANTS Paths, Contents, None

VARIABLE tree   \* tree[p] : the content at p, None if there is nothing

Init == tree = [p \in Paths |-> None]

Under(d, p) == Len(d) < Len(p) /\ SubSeq(p, 1, Len(d)) = d

Store(p) == \E content \in Contents : tree' = [tree EXCEPT ![p] = content]

Remove(gone) == tree' = [p \in Paths |-> IF p \in gone THEN None ELSE tree[p]]

\* Files named by "from" go where "to" says; a move takes them away.
Transfer(from, to, move) ==
  tree' = [p \in Paths |->
             IF \E q \in from : to[q] = p
               THEN tree[CHOOSE q \in from : to[q] = p]
               ELSE IF move /\ p \in from THEN None ELSE tree[p]]

TransferFile(p, q, move) == tree[p] # None /\ Transfer({p}, [r \in {p} |-> q], move)

Below(d) == {p \in Paths : Under(d, p) /\ tree[p] # None}

TransferTree(d, e, move) ==
  LET from == Below(d)
  IN  Transfer(from, [p \in from |-> e \o SubSeq(p, Len(d) + 1, Len(p))], move)

\* A directory is named by the path of anything below it, cut short.
Directories == UNION {{SubSeq(p, 1, n) : n \in 1..Len(p)} : p \in Paths}

Next ==
  \/ \E p \in Paths : Store(p) \/ Remove({p})
  \/ \E d \in Directories : Remove({q \in Paths : Under(d, q)})
  \/ \E p \in Paths : tree[p] # None /\ \E q \in Paths, move \in BOOLEAN : TransferFile(p, q, move)
  \/ \E d \in Directories : Below(d) # {} /\ \E e \in Directories, move \in BOOLEAN : TransferTree(d, e, move)

Spec == Init /\ [][Next]_tree
================================================================================
