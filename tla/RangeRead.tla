------------------------------- MODULE RangeRead -------------------------------
(***************************************************************************)
(* A full or ranged GET of one object: internal/s3api/server.go:497-529 (the *)
(* short links of internal/web/shortlink.go:57-98 are the same) over         *)
(* store.GetObject and store/range.go.  The size a range is parsed against   *)
(* is read in one query, the chunks it is applied to in a later one, and the *)
(* chunks are fetched from Telegram one by one after that; the object may be *)
(* replaced or deleted at any point.                                         *)
(*                                                                          *)
(* A GET over WebDAV is another one: OpenFile reads the object's row for the *)
(* ETag (internal/dav/fs.go), and http.ServeContent seeks to the end of the  *)
(* file to know its size, at which davFile reads all of it into memory.      *)
(*                                                                          *)
(* Bytes are numbered from 0 as in the code; byte i of version v of the      *)
(* object is the pair <<v, i>>.                                              *)
(***************************************************************************)
EXTENDS Integers, Sequences, FiniteSets, SequencesExt

CONSTANTS
  MaxSize,      \* bound: size of a chunk
  MaxChunks,    \* bound: chunks of an object
  MaxVersions,  \* bound: how often the object is written
  None

Chunk == [offset : Nat, size : Nat]
Byte == Nat \X Nat
ByteRange == [start : Nat, end : Nat]

ASSUME SizesAssumption == MaxSize \in Nat /\ MaxChunks \in Nat /\ MaxVersions \in Nat
ASSUME NoneAssumption ==
  /\ None \notin Nat /\ None \notin ByteRange /\ None \notin Seq(Byte)
  /\ None \notin [version : Nat, chunks : Seq(Chunk)]

VARIABLES
  object,    \* [version, chunks] of the committed object, or None
  versions,  \* versions written so far
  get        \* the GET: where it stands, what it asked for, what it has sent

vars == <<object, versions, get>>

NoRange == None   \* a GET without a Range header
Idle ==
  [at |-> "idle", range |-> NoRange, sized |-> None, info |-> None, left |-> <<>>, buffer |-> None,
   sent |-> <<>>]

Init == object = None /\ versions = 0 /\ get = Idle

\* The size of the object is the sum of its chunks.
Size(chunks) == IF chunks = <<>> THEN 0 ELSE Last(chunks).offset + Last(chunks).size
--------------------------------------------------------------------------------
(* Writers *)

\* A round of the loop: the offset is the size of what is there already.
AddChunk(chunks, size) == Append(chunks, [offset |-> Size(chunks), size |-> size])

\* buildMultipartObject (a single upload is the case of one chunk).
Chunks(sizes) ==
  LET built[i \in 0..Len(sizes)] == IF i = 0 THEN <<>> ELSE AddChunk(built[i - 1], sizes[i])
  IN  built[Len(sizes)]

Put ==
  /\ versions < MaxVersions
  /\ versions' = versions + 1
  /\ \E n \in 0..MaxChunks : \E sizes \in [1..n -> 0..MaxSize] :
       object' = [version |-> versions', chunks |-> Chunks(sizes)]
  /\ UNCHANGED get

Delete ==
  /\ object # None
  /\ object' = None
  /\ UNCHANGED <<versions, get>>
--------------------------------------------------------------------------------
(* store/range.go *)

Least(a, b) == IF a < b THEN a ELSE b
Greatest(a, b) == IF a > b THEN a ELSE b

\* "bytes=a-b", "bytes=a-" and "bytes=-n" against a size, None when invalid.
ParseRange(header, size) ==
  IF size <= 0 THEN None
  ELSE CASE header.form = "suffix" ->
              IF header.n <= 0 THEN None
              ELSE [start |-> size - Least(header.n, size), end |-> size - 1]
         [] header.form = "from" ->
              IF header.a >= size THEN None ELSE [start |-> header.a, end |-> size - 1]
         [] header.form = "span" ->
              IF header.a >= size \/ header.b < header.a THEN None
              ELSE [start |-> header.a, end |-> Least(header.b, size - 1)]

Headers ==
  LET offsets == 0..(MaxChunks * MaxSize + 1) IN
  [form : {"suffix"}, n : offsets] \cup [form : {"from"}, a : offsets]
    \cup [form : {"span"}, a : offsets, b : offsets]

RangeLength(r) == r.end - r.start + 1

Overlaps(chunk, r) ==
  chunk.size > 0 /\ chunk.offset + chunk.size - 1 >= r.start /\ chunk.offset <= r.end

\* Deviation: the last byte of a chunk is not counted.
CropShort(chunk, r) ==
  LET first == Greatest(chunk.offset, r.start)
      last == Least(chunk.offset + chunk.size - 1, r.end)
  IN  [chunk |-> chunk, skip |-> first - chunk.offset, take |-> last - first]

Crop(chunk, r) ==
  LET first == Greatest(chunk.offset, r.start)
      last == Least(chunk.offset + chunk.size - 1, r.end)
  IN  [chunk |-> chunk, skip |-> first - chunk.offset, take |-> last - first + 1]

Whole(chunk) == [chunk |-> chunk, skip |-> 0, take |-> chunk.size]

\* A round of SelectChunksForRange.
Select(selected, chunk, r) ==
  IF Overlaps(chunk, r) THEN Append(selected, Crop(chunk, r)) ELSE selected

\* SelectChunksForRange, or every chunk without a range (store.go:508-516).
Selected(chunks, r) ==
  LET selected[i \in 0..Len(chunks)] == IF i = 0 THEN <<>> ELSE Select(selected[i - 1], chunks[i], r)
  IN  IF r = NoRange THEN [i \in DOMAIN chunks |-> Whole(chunks[i])] ELSE selected[Len(chunks)]
--------------------------------------------------------------------------------
(* The GET *)

\* Without a Range header there is nothing to look up.
StartAll ==
  /\ get.at = "idle"
  /\ get' = [Idle EXCEPT !.at = "open"]
  /\ UNCHANGED <<object, versions>>

\* With one, the size comes from HeadObject (server.go:500-513).
StartRange ==
  /\ get.at = "idle"
  /\ object # None
  /\ \E header \in Headers :
       LET r == ParseRange(header, Size(object.chunks)) IN
       /\ r # None
       /\ get' = [Idle EXCEPT !.at = "open", !.range = r, !.sized = object.version]
  /\ UNCHANGED <<object, versions>>

NoSuchKey ==
  /\ get.at = "open"
  /\ object = None
  /\ get' = Idle
  /\ UNCHANGED <<object, versions>>

\* One transaction reads the object and its chunks, then the headers go out
\* (store.go:496-516, server.go:514-527).
Open ==
  /\ get.at = "open"
  /\ object # None
  /\ get' = [get EXCEPT !.at = "body", !.left = Selected(object.chunks, get.range),
                        !.info = [version |-> object.version, size |-> Size(object.chunks)]]
  /\ UNCHANGED <<object, versions>>

\* The first n bytes of what is taken of a chunk.
Bytes(selected, version, n) ==
  [i \in 1..n |-> <<version, selected.chunk.offset + selected.skip + i - 1>>]

\* Deviation: the chunk is looked up again in the object as it is by now.
CopyAnew ==
  /\ get.at = "body" /\ get.left # <<>> /\ object # None
  /\ get' = [get EXCEPT !.left = Tail(@), !.sent = @ \o Bytes(Head(get.left), object.version, Head(get.left).take)]
  /\ UNCHANGED <<object, versions>>

\* Telegram keeps the bytes of a chunk, whatever happens to the object.
Copy ==
  /\ get.at = "body" /\ get.left # <<>>
  /\ get' = [get EXCEPT !.left = Tail(@), !.sent = @ \o Bytes(Head(get.left), get.info.version, Head(get.left).take)]
  /\ UNCHANGED <<object, versions>>

\* A download fails within a chunk: the response ends there (store.go:531-563).
Break ==
  /\ get.at = "body" /\ get.left # <<>>
  /\ \E n \in 0..(Head(get.left).take - 1) :
       get' = [get EXCEPT !.at = "broken", !.left = <<>>,
                          !.sent = @ \o Bytes(Head(get.left), get.info.version, n)]
  /\ UNCHANGED <<object, versions>>

Finish ==
  /\ get.at = "body" /\ get.left = <<>>
  /\ get' = [get EXCEPT !.at = "done"]
  /\ UNCHANGED <<object, versions>>

--------------------------------------------------------------------------------
(* The GET over WebDAV *)

DavOpen ==
  /\ get.at = "idle"
  /\ object # None
  /\ get' = [Idle EXCEPT !.at = "davOpen", !.sized = object.version]
  /\ UNCHANGED <<object, versions>>

\* ensureReadBuffer starts a GetObject of the whole object, as it is by now.
DavGet ==
  /\ get.at = "davOpen"
  /\ object # None
  /\ get' = [get EXCEPT !.at = "davRead", !.left = Selected(object.chunks, NoRange),
                        !.info = [version |-> object.version, size |-> Size(object.chunks)]]
  /\ UNCHANGED <<object, versions>>

\* The object is gone by now, or a download fails: 500, and no body.
DavFail ==
  /\ \/ get.at = "davOpen" /\ object = None
     \/ get.at = "davRead" /\ get.left # <<>>
  /\ get' = Idle
  /\ UNCHANGED <<object, versions>>

\* io.ReadAll.
DavRead ==
  /\ get.at = "davRead" /\ get.buffer = None
  /\ LET read(i) == Bytes(get.left[i], get.info.version, get.left[i].take) IN
     get' = [get EXCEPT !.left = <<>>, !.buffer = FlattenSeq([i \in DOMAIN get.left |-> read(i)])]
  /\ UNCHANGED <<object, versions>>

\* http.ServeContent: all of the buffer, or a range within it.
DavServe ==
  /\ get.buffer # None /\ get.at = "davRead"
  /\ \/ get' = [get EXCEPT !.at = "done", !.sent = get.buffer]
     \/ \E stop \in 0..(Len(get.buffer) - 1) : \E start \in 0..stop :
          get' = [get EXCEPT !.at = "done", !.range = [start |-> start, end |-> stop],
                             !.sent = SubSeq(get.buffer, start + 1, stop + 1)]
  /\ UNCHANGED <<object, versions>>

Forget ==
  /\ get.at \in {"done", "broken"}
  /\ get' = Idle
  /\ UNCHANGED <<object, versions>>

Next ==
  \/ Put \/ Delete
  \/ StartAll \/ StartRange \/ NoSuchKey \/ Open \/ Copy \/ Break \/ Finish
  \/ DavOpen \/ DavGet \/ DavFail \/ DavRead \/ DavServe
  \/ Forget

Spec == Init /\ [][Next]_vars
--------------------------------------------------------------------------------
(* What a reader gets *)

\* The bytes of a version that a GET asks for, as the HTTP range says.
Wanted(info, r) ==
  LET start == IF r = NoRange THEN 0 ELSE r.start
      stop == IF r = NoRange THEN info.size ELSE Least(r.end + 1, info.size)
  IN  [i \in 1..Greatest(0, stop - start) |-> <<info.version, start + i - 1>>]

Responding == get.at \in {"body", "broken", "done"}

\* A response is a run of bytes of one version, in order and from the right
\* place, however chunks lie across the range and whatever writers do while it
\* is under way; it is all of them when it ends without an error
\* (docs/superpowers/specs/2026-05-22-go-telegram-s3-design.md:395).
RightBytes ==
  Responding =>
    /\ IsPrefix(get.sent, Wanted(get.info, get.range))
    /\ get.at = "done" => get.sent = Wanted(get.info, get.range)

\* A response has the Content-Length it announced if the object was not written
\* between the two reads; over WebDAV even if it was, as size and bytes come from
\* one buffer (internal/dav/fs.go:420-445).
LengthKept ==
  /\ get.at = "done" /\ get.range # NoRange
  /\ get.buffer # None \/ get.sized = get.info.version
  => Len(get.sent) = RangeLength(get.range)
================================================================================
