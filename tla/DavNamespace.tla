------------------------------ MODULE DavNamespace ------------------------------
(***************************************************************************)
(* internal/dav and the transactions of metadata/sqlite.go it calls: one    *)
(* bucket as a WebDAV tree.  The handler looks at the database in one or    *)
(* more reads, then changes it in a single transaction; other requests may  *)
(* run in between, since the WebDAV locks are always granted                *)
(* (internal/dav/lock.go) and only PUT takes the key lock of the store.     *)
(*                                                                         *)
(* A key "a/b/x" is the sequence of its names, numbered in the byte order   *)
(* SQLite sorts by; "a/b/", the marker of a collection, ends in the empty   *)
(* name 0.  A collection is named by the path before its last slash.        *)
(***************************************************************************)
EXTENDS Naturals, Sequences, FiniteSets, SequencesExt

CONSTANTS
  Fold,         \* Fold[n] : the name that LIKE takes n for (it ignores ASCII case)
  Files,        \* keys of files; bounds the tree
  Contents,     \* what clients write, bounds the writes
  Clients,      \* requests in flight
  MaxRows,      \* bound: objects in the bucket
  MaxRecursive, \* maxRecursiveObjects
  Upwards,      \* TRUE iff clients copy or move collections onto their ancestors
  None

Dir == "dir"    \* what a marker holds: no bytes, no chunks

Collections == UNION {Prefixes(f) \ {<<>>, f} : f \in Files}
Markers == {Append(p, 0) : p \in Collections}
Keys == Files \cup Markers

\* What Coll makes of a key: the place of a file or of a collection.
Places == Files \cup Collections

\* What there is of a key in objects, and in object_chunks.
Row == [meta : Contents \cup {Dir}, chunks : Contents \cup {Dir}]

ASSUME FoldAssumption ==
  /\ DOMAIN Fold \subseteq Nat \ {0}
  /\ Files \subseteq Seq(DOMAIN Fold) \ {<<>>}
ASSUME NoneAssumption == None \notin Contents \cup {Dir} \cup Row

VARIABLES
  rows,     \* rows[k] : the row of objects and the chunk rows of key k, or None
  written,  \* contents stored so far
  req       \* req[c]  : what request c is about to do after its checks

vars == <<rows, written, req>>

Idle == [at |-> "idle", src |-> None, dst |-> None, overwrite |-> FALSE]

Init ==
  /\ rows = [k \in Keys |-> None]
  /\ written = {}
  /\ req = [c \in Clients |-> Idle]

--------------------------------------------------------------------------------
(* Keys, prefixes and LIKE *)

\* canonicalCollectionKey, without its slash.
Coll(k) == IF Last(k) = 0 THEN Front(k) ELSE k

Folded(p) == [i \in 1..Len(p) |-> IF p[i] = 0 THEN 0 ELSE Fold[p[i]]]

\* Deviation: the prefix is matched without its trailing slash, so that the file
\* of the same path matches too.
LikeWithoutSlash(p, k) == Len(p) <= Len(k) /\ Folded(SubSeq(k, 1, Len(p))) = Folded(p)

\* key LIKE 'p/%' (sqlite.go:234, 457, 840, 898-901).
Like(p, k) == Len(p) < Len(k) /\ Folded(SubSeq(k, 1, Len(p))) = Folded(p)

Under(p, k) == Len(p) < Len(k) /\ SubSeq(k, 1, Len(p)) = p

\* ORDER BY key.
Before(j, k) ==
  \/ IsStrictPrefix(j, k)
  \/ \E i \in 1..Len(j) \cap 1..Len(k) : j[i] < k[i] /\ SubSeq(j, 1, i - 1) = SubSeq(k, 1, i - 1)

\* The keys that a prefix matches.
Matched == [p \in Places |-> {k \in Keys : Like(p, k)}]

Rows(t) == {k \in Keys : t[k] # None}
Matching(t, p) == Rows(t) \cap Matched[p]
HasObject(k) == k \in Rows(rows)
HasCollection(p) == Matching(rows, p) # {}

\* dstPrefix + strings.TrimPrefix(key, srcPrefix): a key that LIKE matched in
\* other case keeps its whole path.
Target(src, dst, k) == dst \o (IF Under(src, k) THEN SubSeq(k, Len(src) + 1, Len(k)) ELSE k)

--------------------------------------------------------------------------------
(* Transactions of metadata/sqlite.go *)

\* Deviation: chunk rows that the destination has already are left in place.
CopyRowOverChunks(listed, now, src, dst) ==
  [now EXCEPT ![dst] = [meta |-> listed[src].meta,
                        chunks |-> IF now[dst] = None THEN now[src].chunks ELSE now[dst].chunks]]

\* putObjectInTx: the metadata is that of the row as it was listed, the chunks
\* are read now.
CopyRow(listed, now, src, dst) ==
  [now EXCEPT ![dst] = [meta |-> listed[src].meta, chunks |-> now[src].chunks]]

\* ORDER BY key: the listings of a set of rows.
Listings(keys) ==
  {listing \in [1..Cardinality(keys) -> keys] :
     \A i, j \in 1..Cardinality(keys) : i < j => Before(listing[i], listing[j])}

\* Deviation: the destination is looked up before the first copy only.
CopyNextClashOnce(copied, k, target) ==
  [table |-> CopyRow(rows, copied.table, k, target),
   clash |-> copied.clash \/ (copied.table = rows /\ rows[target] # None)]

\* One row of copyPrefixInTx: the new table, and whether a destination existed.
CopyNext(copied, k, target) ==
  [table |-> CopyRow(rows, copied.table, k, target),
   clash |-> copied.clash \/ copied.table[target] # None]

\* copyPrefixInTx: the rows of a listing, one after the other.
CopyPrefix(src, dst, listing) ==
  LET copied[i \in 0..Len(listing)] ==
        IF i = 0 THEN [table |-> rows, clash |-> FALSE]
        ELSE CopyNext(copied[i - 1], listing[i], Target(src, dst, listing[i]))
  IN  copied[Len(listing)]

DeletePrefix(t, p) == [k \in Keys |-> IF k \in Matched[p] THEN None ELSE t[k]]

\* Bounds: copies stay within Keys and MaxRows.
Fits(src, dst) == \A k \in Matching(rows, src) : Target(src, dst, k) \in Keys
Bounded == Cardinality(Rows(rows')) <= MaxRows

--------------------------------------------------------------------------------
(* Requests: the checks of the handler *)

Ask(c, what, src, dst, overwrite) ==
  /\ req' = [req EXCEPT ![c] = [at |-> what, src |-> src, dst |-> dst, overwrite |-> overwrite]]
  /\ UNCHANGED <<rows, written>>

Return(c) == req' = [req EXCEPT ![c] = Idle]

\* A file may not be put where a collection is (handler.go:113-121, fs.go:137-142).
PutCheck(c, k) ==
  /\ ~HasCollection(k)
  /\ Ask(c, "put", k, None, TRUE)

\* Nothing of that name may exist, and the parent must (handler.go:122-134, fs.go:87-109).
MkcolCheck(c, k) ==
  /\ ~HasObject(Coll(k)) /\ ~HasCollection(Coll(k))
  /\ Len(Coll(k)) > 1 => HasCollection(Front(Coll(k)))
  /\ Ask(c, "mkcol", k, None, FALSE)

\* RemoveAll: an object goes before a collection of the same path (fs.go:184-218).
DeleteCheck(c, k) ==
  \/ /\ Last(k) # 0 /\ HasObject(k)
     /\ Ask(c, "deleteObject", k, None, TRUE)
  \/ /\ Last(k) = 0 \/ ~HasObject(k)
     /\ HasCollection(Coll(k))
     /\ Cardinality(Matching(rows, Coll(k))) <= MaxRecursive
     /\ Ask(c, "deletePrefix", Coll(k), None, TRUE)

\* The source is a collection if it is written as one or is no object
\* (handler.go:232-247), and it has some objects, but not too many (266-278).
TreeSource(k) ==
  /\ Last(k) = 0 \/ ~HasObject(k)
  /\ Cardinality(Matching(rows, Coll(k))) \in 1..MaxRecursive

\* Deviation: the two paths are swapped.
IntoItselfSwapped(src, dst) == Under(dst, src)

\* isSubpath(srcPrefix, dstPrefix).
IntoItself(src, dst) == Under(src, dst)

\* handleCopyMove on a collection (handler.go:248-265).
TransferTreeCheck(c, k, d, move, overwrite) ==
  LET src == Coll(k) dst == Coll(d) IN
  /\ ~HasObject(d)
  /\ move => src # dst
  /\ ~IntoItself(src, dst)
  /\ Ask(c, IF move THEN "movePrefix" ELSE "copyPrefix", src, dst, overwrite)

\* handleCopyMove on an object (handler.go:298-324).
TransferFileCheck(c, k, d, move, overwrite) ==
  /\ Last(k) # 0 /\ HasObject(k)
  /\ ~HasCollection(Coll(d))
  /\ move => k # d
  /\ Ask(c, IF move THEN "moveObject" ELSE "copyObject", k, d, overwrite)

--------------------------------------------------------------------------------
(* Requests: the transaction *)

\* davFile.Close hands the body to ObjectStore.PutObject.
Put(c) ==
  /\ req[c].at = "put"
  /\ \E content \in Contents \ written :
       /\ rows' = [rows EXCEPT ![req[c].src] = [meta |-> content, chunks |-> content]]
       /\ written' = written \cup {content}
  /\ Bounded
  /\ Return(c)

Mkcol(c) ==
  /\ req[c].at = "mkcol"
  /\ rows' = [rows EXCEPT ![Append(Coll(req[c].src), 0)] = [meta |-> Dir, chunks |-> Dir]]
  /\ Bounded
  /\ Return(c)
  /\ UNCHANGED written

DeleteObject(c) ==
  /\ req[c].at = "deleteObject"
  /\ rows' = [rows EXCEPT ![req[c].src] = None]
  /\ Return(c)
  /\ UNCHANGED written

DeleteTree(c) ==
  /\ req[c].at = "deletePrefix"
  /\ rows' = DeletePrefix(rows, req[c].src)
  /\ Return(c)
  /\ UNCHANGED written

\* CopyObject and MoveObject (sqlite.go:275-362).
TransferFile(c) ==
  LET src == req[c].src dst == req[c].dst IN
  /\ req[c].at \in {"copyObject", "moveObject"}
  /\ HasObject(src)
  /\ HasObject(dst) => req[c].overwrite
  /\ rows' = IF req[c].at = "moveObject"
               THEN [CopyRow(rows, rows, src, dst) EXCEPT ![src] = None]
               ELSE CopyRow(rows, rows, src, dst)
  /\ Bounded
  /\ Return(c)
  /\ UNCHANGED written

\* CopyPrefix and MovePrefix (sqlite.go:364-403).
TransferTree(c) ==
  LET src == req[c].src dst == req[c].dst IN
  /\ req[c].at \in {"copyPrefix", "movePrefix"}
  /\ Fits(src, dst)
  /\ \E listing \in Listings(Matching(rows, src)) :
       LET copied == CopyPrefix(src, dst, listing) IN
       /\ copied.clash => req[c].overwrite
       /\ rows' = IF req[c].at = "movePrefix" THEN DeletePrefix(copied.table, src) ELSE copied.table
  /\ Bounded
  /\ Return(c)
  /\ UNCHANGED written

\* An error at any point after the checks: the transaction is rolled back.
Fail(c) ==
  /\ req[c].at # "idle"
  /\ Return(c)
  /\ UNCHANGED <<rows, written>>

\* The S3 and web APIs change objects without looking at collections.
S3Put(k) ==
  /\ \E content \in Contents \ written :
       /\ rows' = [rows EXCEPT ![k] = [meta |-> content, chunks |-> content]]
       /\ written' = written \cup {content}
  /\ Bounded
  /\ UNCHANGED req

S3Delete(k) ==
  /\ HasObject(k)
  /\ rows' = [rows EXCEPT ![k] = None]
  /\ UNCHANGED <<written, req>>

\* Where clients send a collection: the handler lets them send it onto an
\* ancestor, Upwards says whether they do.
Destinations(k) == {d \in Keys : Upwards \/ ~Under(Coll(d), Coll(k))}

Check(c) ==
  /\ req[c].at = "idle"
  /\ \/ \E k \in Files : PutCheck(c, k)
     \/ \E k \in Keys : DeleteCheck(c, k)
     \/ \E k \in Markers : MkcolCheck(c, k)
     \/ \E k \in Keys :
          \/ /\ TreeSource(k)
             /\ \E d \in Destinations(k), move, overwrite \in BOOLEAN : TransferTreeCheck(c, k, d, move, overwrite)
          \/ /\ HasObject(k)
             /\ \E d \in Keys, move, overwrite \in BOOLEAN : TransferFileCheck(c, k, d, move, overwrite)

Act(c) ==
  \/ Put(c) \/ Mkcol(c) \/ DeleteObject(c) \/ DeleteTree(c)
  \/ TransferFile(c) \/ TransferTree(c) \/ Fail(c)

Next ==
  \/ \E c \in Clients : Check(c) \/ Act(c)
  \/ \E k \in Keys : S3Put(k) \/ S3Delete(k)

Spec == Init /\ [][Next]_vars
--------------------------------------------------------------------------------
(* What the checks leave behind *)

Table == [Keys -> Row \cup {None}]

\* A request whose checks have passed: they look at paths, which stay as they are.
RequestOK(r) ==
  /\ r.at = "idle" => r.dst = None
  /\ r.at = "put" => r.src \in Files /\ r.dst = None
  /\ r.at = "mkcol" => r.src \in Markers /\ r.dst = None
  /\ r.at = "deleteObject" => r.src \in Keys /\ r.dst = None
  /\ r.at = "deletePrefix" => r.src \in Places /\ r.dst = None
  /\ r.at \in {"copyObject", "moveObject"} => r.src \in Keys /\ r.dst \in Keys
  /\ r.at = "moveObject" => r.src # r.dst
  /\ r.at \in {"copyPrefix", "movePrefix"} =>
       r.src \in Places /\ r.dst \in Places /\ ~Under(r.src, r.dst) /\ (Upwards \/ ~Under(r.dst, r.src))
  /\ r.at = "movePrefix" => r.src # r.dst

\* The type invariant, inductive: rows are whole records, and a transaction about
\* to run has a source that is neither its destination, if it moves, nor above it
\* (handler.go:254-265, 310-324).
IInv ==
  /\ rows \in Table /\ IsFiniteSet(Rows(rows))
  /\ written \subseteq Contents
  /\ req = [c \in Clients |-> req[c]]
  /\ \A c \in Clients : RequestOK(req[c])

--------------------------------------------------------------------------------
(* What WebDAV clients rely on *)

\* The row of a key and its chunk rows describe one and the same content:
\* copying metadata row by row never pairs one object's size and hash with the
\* Telegram files of another.
RowsWhole == \A k \in Keys : rows[k] # None => rows[k].meta = rows[k].chunks

\* Whatever requests run side by side, the tree changes as Tree says: the loop
\* over the listed rows amounts to one simultaneous transfer, and the checks,
\* stale as they may be, decide only between legal changes.
AsTree == INSTANCE Tree WITH
  Paths <- Keys, Contents <- Contents \cup {Dir},
  tree <- [k \in Keys |-> IF rows[k] = None THEN None ELSE rows[k].chunks]
TreeSpec == AsTree!Spec

\* A request with Overwrite: F replaces nothing that exists when it commits,
\* although the destination was looked at before; a move only takes its source.
OverwriteForbidden ==
  [][\A c \in Clients :
       req[c].dst # None /\ ~req[c].overwrite /\ req'[c] = Idle =>
         \A k \in Rows(rows) :
           rows'[k] = rows[k] \/ k = req[c].src \/ Like(req[c].src, k)]_vars

--------------------------------------------------------------------------------
(* What the design document says *)

\* Lines 287-288: a directory move copies the metadata of every object under
\* the source prefix to the destination and then deletes the source metadata,
\* so each of them is at its destination afterwards.
MoveArrives ==
  [][\A c \in Clients :
       req[c].at = "movePrefix" /\ req'[c] = Idle /\ rows' # rows =>
         \A k \in Rows(rows) : Under(req[c].src, k) =>
           rows'[Target(req[c].src, req[c].dst, k)] = rows[k]]_vars

\* Line 184: a recursive operation matches only keys with the canonical prefix.
DeleteStaysBelow ==
  [][\A c \in Clients :
       req[c].at = "deletePrefix" /\ req'[c] = Idle =>
         \A k \in Rows(rows) : Under(req[c].src, k) \/ rows'[k] = rows[k]]_vars
================================================================================
