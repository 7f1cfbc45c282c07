--------------------------------- MODULE Listing ---------------------------------
(***************************************************************************)
(* A walk through a bucket: store.ObjectStore.ListObjects, called page after *)
(* page by a client that follows the continuation                           *)
(* (internal/s3api/server.go:327-393, internal/web/api_files.go:18-61),      *)
(* while others write and delete.                                           *)
(* Each query of the metadata is a read of its own; between two of them, and  *)
(* between two pages, the bucket may change.                                 *)
(*                                                                         *)
(* Keys are numbered in the order of the index; only those that the prefix  *)
(* of the request matches are considered.  Group[k] is the common prefix a   *)
(* key is rolled up into, None for a key without the delimiter; without one *)
(* in the request Group is None everywhere, and the two loops of the code    *)
(* (store.go:603-616 and 618-659) do the same.                              *)
(*                                                                         *)
(* The other walks are one loop each over the same query: `tgnas ls` with and *)
(* without a limit, `tgnas lsd`, which prints the common prefixes only       *)
(* (cmd/tgnas/main.go), and the children of a WebDAV collection, rolled up   *)
(* from ListAllObjects (internal/dav/fs.go).                                *)
(***************************************************************************)
EXTENDS Integers, Sequences, FiniteSets, SequencesExt

CONSTANTS
  KeyCount,       \* the keys are 1..KeyCount
  Group,      \* Group[k] : the common prefix of key k, or None
  Marker,     \* the key that is the prefix of the request itself: the object that Mkdir
              \* writes for a collection; None if there is no such key
  Limit,      \* max-keys
  ReadAhead,  \* a query asks for this many rows per entry still wanted, and one more: 4
  Batch,      \* rows per query of advanceContinuationPastPrefix: 32
  PageSize,   \* rows per query of the other walks: 1000
  MaxWrites,  \* bound on puts and deletes during a walk
  None

Keys == 1..KeyCount

ASSUME SizesAssumption ==
  KeyCount \in Nat /\ Limit \in Nat \ {0} /\ ReadAhead \in Nat \ {0} /\ Batch \in Nat \ {0} /\ PageSize \in Nat \ {0} /\ MaxWrites \in Nat
ASSUME GroupAssumption ==
  /\ DOMAIN Group = Keys
  /\ \A i, j, k \in Keys : i < j /\ j < k /\ Group[i] = Group[k] /\ Group[i] # None => Group[j] = Group[i]

ASSUME MarkerAssumption == Marker \in Keys => Group[Marker] = None

VARIABLES
  present,  \* keys with an object
  steady,   \* history: keys present since the walk began
  writes,   \* puts and deletes since then
  walk,     \* which walk: pages, ls, lsLimited, lsd, children
  at,       \* idle, scan (the loop), advance (past a prefix), probe (for more), page (returned),
            \* rows (the loop of the other walks), end
  after,    \* afterKey of the next query, 0 at the beginning
  next,     \* NextContinuationAfter of this page, 0 when empty
  page,     \* what this page has so far: keys and common prefixes
  pages     \* the pages returned before

vars == <<present, steady, writes, walk, at, after, next, page, pages>>
bucket == <<present, steady, writes>>

NewPage == [keys |-> <<>>, prefixes |-> <<>>]

Init ==
  /\ present \in SUBSET Keys
  /\ steady = {}
  /\ writes = 0
  /\ walk = "pages"
  /\ at = "idle"
  /\ after = 0
  /\ next = 0
  /\ page = NewPage
  /\ pages = <<>>
--------------------------------------------------------------------------------
(* Writers *)

Put(k) ==
  /\ writes < MaxWrites
  /\ present' = present \cup {k}
  /\ writes' = writes + 1
  /\ UNCHANGED <<steady, walk, at, after, next, page, pages>>

Delete(k) ==
  /\ writes < MaxWrites
  /\ k \in present
  /\ present' = present \ {k}
  /\ steady' = steady \ {k}
  /\ writes' = writes + 1
  /\ UNCHANGED <<walk, at, after, next, page, pages>>
--------------------------------------------------------------------------------
(* The query and what is made of its rows *)

\* Deviation: the rows start at the key instead of behind it.
FoundInclusive(rows, k, behind) == IF k \in present /\ k >= behind THEN Append(rows, k) ELSE rows

\* A key of the index: WHERE key > ?
Found(rows, k, behind) == IF k \in present /\ k > behind THEN Append(rows, k) ELSE rows

\* metadata.ListObjects: the first rows behind a key, ORDER BY key LIMIT ?
Query(behind, limit) ==
  LET found[k \in 0..KeyCount] == IF k = 0 THEN <<>> ELSE Found(found[k - 1], k, behind)
      rows == found[KeyCount]
  IN  SubSeq(rows, 1, IF Len(rows) < limit THEN Len(rows) ELSE limit)

Emitted(p) == Len(p.keys) + Len(p.prefixes)

AddKey(p, k) == [p EXCEPT !.keys = Append(@, k)]
AddPrefix(p, k) == [p EXCEPT !.prefixes = Append(@, Group[k])]

QueryLimit == (Limit - Emitted(page)) * ReadAhead + 1

\* Deviation: a key of a prefix that is on the page already is taken for a new entry.
RowTwice(acc, k) ==
  IF acc.full \/ acc.past # None THEN acc
  ELSE LET p == IF Group[k] = None THEN AddKey(acc.page, k) ELSE AddPrefix(acc.page, k)
       IN  [page |-> p, next |-> k,
            full |-> Group[k] = None /\ Emitted(p) >= Limit,
            past |-> IF Group[k] # None /\ Emitted(p) >= Limit THEN Group[k] ELSE None]

\* One row of the loop: a key of a prefix seen before only moves the
\* continuation, any other row is a new entry, and the last entry of a page
\* ends the loop, behind the whole prefix if it is one.
Row(acc, k) ==
  IF acc.full \/ acc.past # None THEN acc
  ELSE IF Group[k] # None /\ Group[k] \in ToSet(acc.page.prefixes) THEN [acc EXCEPT !.next = k]
  ELSE LET p == IF Group[k] = None THEN AddKey(acc.page, k) ELSE AddPrefix(acc.page, k)
       IN  [page |-> p, next |-> k,
            full |-> Group[k] = None /\ Emitted(p) >= Limit,
            past |-> IF Group[k] # None /\ Emitted(p) >= Limit THEN Group[k] ELSE None]

\* The rows of a query, one after the other.
Rolled(acc, rows) ==
  LET rolled[i \in 0..Len(rows)] == IF i = 0 THEN acc ELSE Row(rolled[i - 1], rows[i])
  IN  rolled[Len(rows)]

\* Deviation: the continuation goes behind the first key of the next entry.
LastOfGroupPlusOne(rows, g, cursor) ==
  LET others == {i \in DOMAIN rows : Group[rows[i]] # g}
      stop == CHOOSE i \in others : \A j \in others : i <= j
  IN  IF others = {} THEN (IF rows = <<>> THEN cursor ELSE rows[Len(rows)]) ELSE rows[stop]

\* Deviation: the continuation stays at the first key of the prefix.
LastOfGroupForgotten(rows, g, cursor) == cursor

\* The last row before one that is not of prefix g.
LastOfGroup(rows, g, cursor) ==
  LET own == {i \in DOMAIN rows : \A j \in 1..i : Group[rows[j]] = g}
  IN  IF own = {} THEN cursor ELSE rows[CHOOSE i \in own : \A j \in own : j <= i]
--------------------------------------------------------------------------------
(* The walk *)

Start ==
  /\ at = "idle"
  /\ steady' = present
  /\ writes' = 0
  /\ \/ walk' = "pages" /\ at' = "scan"
     \/ walk' \in {"ls", "lsLimited", "lsd", "children"} /\ at' = "rows"
  /\ UNCHANGED <<present, after, next, page, pages>>

\* One round of the loop (store.go:586-671).
Scan ==
  /\ at = "scan"
  /\ LET rows == Query(after, QueryLimit)
         acc == Rolled([page |-> page, next |-> next, full |-> FALSE, past |-> None], rows)
     IN  /\ page' = acc.page
         /\ next' = acc.next
         /\ after' = IF rows = <<>> THEN after ELSE acc.next
         /\ at' = IF acc.past # None THEN "advance"
                  ELSE IF acc.full \/ Len(rows) < QueryLimit THEN "probe" ELSE "scan"
  /\ UNCHANGED <<bucket, walk, pages>>

\* One round of advanceContinuationPastPrefix (687-713): there is more if a row
\* of another prefix turns up.
Advance ==
  /\ at = "advance"
  /\ LET g == page.prefixes[Len(page.prefixes)]
         rows == Query(next, Batch)
     IN  /\ next' = LastOfGroup(rows, g, next)
         /\ after' = next'
         /\ at' = IF \E i \in DOMAIN rows : Group[rows[i]] # g THEN "page"
                  ELSE IF Len(rows) < Batch THEN "probe" ELSE "advance"
  /\ UNCHANGED <<bucket, walk, page, pages>>

\* Is there a row behind the continuation (673-682)?  An empty page is the last.
Probe ==
  /\ at = "probe"
  /\ at' = IF next # 0 /\ Query(next, 1) # <<>> THEN "page" ELSE "end"
  /\ IF at' = "end"
       THEN page' = NewPage /\ pages' = Append(pages, page)
       ELSE UNCHANGED <<page, pages>>
  /\ UNCHANGED <<bucket, walk, after, next>>

\* The client asks for the next page with the continuation it was given.
Continue ==
  /\ at = "page"
  /\ pages' = Append(pages, page)
  /\ page' = NewPage
  /\ after' = next
  /\ next' = 0
  /\ at' = "scan"
  /\ UNCHANGED <<bucket, walk>>

\* A line of `tgnas lsd`, which skips keys without a further segment and prefixes
\* printed before.
PrefixOf(p, k) ==
  IF Group[k] = None \/ Group[k] \in ToSet(p.prefixes) THEN p ELSE AddPrefix(p, k)

\* A key of collectionChildren; the collection is not a child of its own.
ChildOf(p, k) ==
  CASE k = Marker -> p
    [] k # Marker /\ Group[k] = None -> AddKey(p, k)
    [] OTHER -> PrefixOf(p, k)

\* What a row adds, in the walk that is on: `ls` prints every key.
Line(p, k) ==
  CASE walk = "lsd" -> PrefixOf(p, k)
    [] walk = "children" -> ChildOf(p, k)
    [] OTHER -> AddKey(p, k)

Lines(rows) ==
  LET lines[i \in 0..Len(rows)] == IF i = 0 THEN page ELSE Line(lines[i - 1], rows[i])
  IN  lines[Len(rows)]

\* One round of `tgnas ls`: it ends on its limit or on a query with less than it
\* asked for.
Ls ==
  /\ at = "rows" /\ walk \in {"ls", "lsLimited"}
  /\ LET wanted == Limit - Len(page.keys)
         limit == IF walk = "lsLimited" /\ wanted < PageSize THEN wanted ELSE PageSize
         rows == Query(after, limit)
     IN  /\ page' = Lines(rows)
         /\ after' = IF rows = <<>> THEN after ELSE Last(rows)
         /\ at' = IF \/ Len(rows) < limit
                     \/ walk = "lsLimited" /\ Len(page'.keys) >= Limit
                   THEN "end" ELSE "rows"
  /\ UNCHANGED <<bucket, walk, next, pages>>

Lsd ==
  /\ at = "rows" /\ walk = "lsd"
  /\ LET rows == Query(after, PageSize)
     IN  /\ page' = Lines(rows)
         /\ after' = IF rows = <<>> THEN after ELSE Last(rows)
         /\ at' = IF Len(rows) < PageSize THEN "end" ELSE "rows"
  /\ UNCHANGED <<bucket, walk, next, pages>>

\* One round of ListAllObjects, which ends on a query without rows; what is
\* gathered is rolled up after the last, here as it comes.
ListAll ==
  /\ at = "rows" /\ walk = "children"
  /\ LET rows == Query(after, PageSize)
     IN  /\ page' = Lines(rows)
         /\ after' = IF rows = <<>> THEN after ELSE Last(rows)
         /\ at' = IF rows = <<>> THEN "end" ELSE "rows"
  /\ UNCHANGED <<bucket, walk, next, pages>>

Forget ==
  /\ at = "end"
  /\ at' = "idle" /\ after' = 0 /\ next' = 0 /\ page' = NewPage /\ pages' = <<>>
  /\ UNCHANGED <<bucket, walk>>

Walk == Scan \/ Advance \/ Probe \/ Continue \/ Ls \/ Lsd \/ ListAll

Next == Start \/ Walk \/ Forget \/ \E k \in Keys : Put(k) \/ Delete(k)

Spec == Init /\ [][Next]_vars

\* A request runs on, and the client asks for the next page.
FairSpec == Spec /\ WF_vars(Walk)
--------------------------------------------------------------------------------
(* What the client relies on *)

AllPages == Append(pages, page)
KeysListed == FlattenSeq([i \in DOMAIN AllPages |-> AllPages[i].keys])
PrefixesListed == FlattenSeq([i \in DOMAIN AllPages |-> AllPages[i].prefixes])

\* A walk that has ended has listed every object that was there all the time,
\* by its key or by its common prefix, wherever pages and queries were cut and
\* whatever was written or deleted meanwhile.  `lsd` owes only the prefixes, `ls`
\* with a limit has shown as many keys as it may, and the children of a collection
\* are without its own marker.
NothingMissed ==
  at = "end" =>
    \A k \in steady :
      \/ k \in ToSet(KeysListed) \/ Group[k] \in ToSet(PrefixesListed)
      \/ walk = "lsd" /\ Group[k] = None
      \/ walk = "children" /\ k = Marker
      \/ walk = "lsLimited" /\ Len(KeysListed) = Limit

\* Keys come in ascending order, over all pages: none twice
\* (docs/superpowers/specs/2026-05-22-go-telegram-s3-design.md:52).
KeysAscend == \A i, j \in DOMAIN KeysListed : i < j => KeysListed[i] < KeysListed[j]

\* Objects and prefixes count towards the limit of a page, and a prefix once,
\* however many rows it rolls up and whichever query they come from.
PagesWithinLimit ==
  \A i \in DOMAIN AllPages :
    /\ walk \in {"pages", "lsLimited"} => Emitted(AllPages[i]) <= Limit
    /\ IsInjective(AllPages[i].prefixes)

\* If nothing is written meanwhile, no two pages have the same prefix: a page
\* that ends on a prefix continues behind all of its keys.  The other walks
\* remember their prefixes from one query to the next.
PrefixesOnce == writes = 0 \/ walk # "pages" => IsInjective(PrefixesListed)

\* The continuation moves on with every query, so that a walk comes to its end
\* however its pages fall.
WalkEnds == at \in {"scan", "rows"} ~> at = "end"
================================================================================
