---------------------------- MODULE RangeReadProofs ----------------------------
(***************************************************************************)
(* A GET of an object of any number of chunks of any sizes, none of them    *)
(* also, rewritten any number of times: what is sent is a run of the bytes  *)
(* of one version, and the run that the range asks for.                     *)
(*                                                                         *)
(* The model's loops over chunks are recursive functions.  That such a      *)
(* function has the values its equation gives is itself proved, from the    *)
(* least element of a set of naturals (LeastNatural, Rounds, LoopDefined);  *)
(* every lemma about a loop is an induction over its rounds by Rounds.      *)
(***************************************************************************)
EXTENDS RangeRead, SequenceTheorems, WellFoundedInduction, TLAPS

\* A set of naturals has a least element, unless it is empty.
LEMMA LeastNatural ==
  ASSUME NEW T \in SUBSET Nat, T # {}
  PROVE  \E x \in T : \A y \in T : x <= y
<1>1. PICK x \in T : \A y \in T : ~(<<y, x>> \in OpToRel(<,Nat))
  BY NatLessThanWellFounded, WFMin, Zenon
<1>2. ASSUME NEW y \in T PROVE x <= y
  <2>1. <<y, x>> \notin OpToRel(<,Nat)
    BY <1>1
  <2>2. ~(y < x)
    BY <2>1 DEF OpToRel
  <2> QED BY <2>2
<1> QED BY <1>2

\* Induction over the rounds of a loop, for any set of rounds that turned out well.
LEMMA Rounds ==
  ASSUME NEW n \in Nat, NEW S, 0 \in S, \A i \in 1..n : i - 1 \in S => i \in S
  PROVE  0..n \subseteq S
<1>1. SUFFICES ASSUME (0..n) \ S # {} PROVE FALSE
  OBVIOUS
<1>2. PICK i \in (0..n) \ S : \A j \in (0..n) \ S : i <= j
  <2> (0..n) \ S \in SUBSET Nat OBVIOUS
  <2> QED BY <1>1, LeastNatural
<1>3. i \in 1..n /\ i - 1 \in 0..n /\ i - 1 \in S
  BY <1>2
<1> QED BY <1>2, <1>3

\* f[i] is what a loop has made of base in its first i rounds.
Loop(f, n, V, base, g) == f \in [0..n -> V] /\ f[0] = base /\ \A i \in 1..n : f[i] = g[<<f[i - 1], i>>]

\* A loop has a value after each of its rounds.
LEMMA LoopDefined ==
  ASSUME NEW n \in Nat, NEW V, NEW base \in V, NEW g \in [V \X (1..n) -> V]
  PROVE  \E f : Loop(f, n, V, base, g)
<1> DEFINE Good(f, m) == f[0] = base /\ \A i \in 1..m : f[i] = g[<<f[i - 1], i>>]
           Defined == {m \in 0..n : \E f \in [0..m -> V] : Good(f, m)}
<1>1. 0 \in Defined
  <2> DEFINE f == [i \in 0..0 |-> base]
  <2>1. f \in [0..0 -> V] /\ Good(f, 0)
    OBVIOUS
  <2> HIDE DEF f, Good
  <2>2. \E h \in [0..0 -> V] : Good(h, 0)
    BY <2>1
  <2> QED BY <2>2
<1>2. ASSUME NEW m \in 1..n, m - 1 \in Defined PROVE m \in Defined
  <2>1. PICK f \in [0..(m - 1) -> V] : Good(f, m - 1)
    BY <1>2
  <2> DEFINE next == [i \in 0..m |-> IF i = m THEN g[<<f[m - 1], m>>] ELSE f[i]]
  <2>2. next \in [0..m -> V]
    OBVIOUS
  <2>3. next[m] = g[<<f[m - 1], m>>] /\ \A i \in 0..(m - 1) : next[i] = f[i]
    OBVIOUS
  <2>4. Good(next, m)
    <3> HIDE DEF next
    <3>1. next[0] = base
      BY <2>1, <2>3
    <3>2. ASSUME NEW i \in 1..m PROVE next[i] = g[<<next[i - 1], i>>]
      <4>1. next[i - 1] = f[i - 1]
        BY <2>3
      <4>2. CASE i = m
        BY <2>3, <4>1, <4>2
      <4>3. CASE i # m
        <5>1. i \in 1..(m - 1)
          BY <4>3
        <5>2. next[i] = f[i]
          BY <2>3, <5>1
        <5> QED BY <2>1, <4>1, <5>1, <5>2
      <4> QED BY <4>2, <4>3
    <3> QED BY <3>1, <3>2
  <2> HIDE DEF next, Good
  <2>5. \E h \in [0..m -> V] : Good(h, m)
    BY <2>2, <2>4
  <2> QED BY <2>5
<1>3. n \in Defined
  <2> HIDE DEF Defined
  <2>1. 0..n \subseteq Defined
    BY <1>1, <1>2, Rounds
  <2> QED BY <2>1
<1> QED BY <1>3 DEF Loop

\* A round of buildMultipartObject adds a chunk to chunks.
LEMMA AddChunkType == \A chunks \in Seq(Chunk), size \in Nat : AddChunk(chunks, size) \in Seq(Chunk)
<1> TAKE chunks \in Seq(Chunk), size \in Nat
<1>1. CASE chunks = <<>>
  BY <1>1 DEF AddChunk, Size, Chunk
<1>2. CASE chunks # <<>>
  <2>1. Len(chunks) \in 1..Len(chunks)
    BY <1>2
  <2>2. Last(chunks) \in Chunk
    BY <2>1 DEF Last
  <2> QED BY <1>2, <2>2 DEF AddChunk, Size, Chunk
<1> QED BY <1>1, <1>2

\* The chunks of a multipart object as the rounds of the loop build them.
LEMMA ChunksBuilt ==
  ASSUME NEW n \in Nat, NEW sizes \in [1..n -> Nat]
  PROVE  \E built \in [0..n -> Seq(Chunk)] :
           /\ built[0] = <<>> /\ built[n] = Chunks(sizes)
           /\ \A i \in 1..n : built[i] = AddChunk(built[i - 1], sizes[i])
<1> DEFINE V == Seq(Chunk)
           g == [p \in V \X (1..n) |-> AddChunk(p[1], sizes[p[2]])]
           Good(f) == f = [i \in 0..n |-> IF i = 0 THEN <<>> ELSE AddChunk(f[i - 1], sizes[i])]
           built == CHOOSE f : Good(f)
           S == {i \in 0..n : built[i] \in V}
<1>1. <<>> \in V /\ \A c \in V, i \in 1..n : AddChunk(c, sizes[i]) \in V
  BY AddChunkType
<1> HIDE DEF V
<1>2. PICK f \in [0..n -> V] : f[0] = <<>> /\ \A i \in 1..n : f[i] = g[<<f[i - 1], i>>]
  <2>1. g \in [V \X (1..n) -> V]
    BY <1>1
  <2> HIDE DEF g
  <2>2. PICK f : Loop(f, n, V, <<>>, g)
    BY <1>1, <2>1, LoopDefined
  <2> QED BY <2>2 DEF Loop
<1>3. Good(f)
  <2>1. ASSUME NEW i \in 1..n PROVE f[i] = AddChunk(f[i - 1], sizes[i])
    <3>1. f[i - 1] \in V
      BY <1>2
    <3> QED BY <1>2, <3>1
  <2>2. \A i \in 0..n : f[i] = IF i = 0 THEN <<>> ELSE AddChunk(f[i - 1], sizes[i])
    BY <1>2, <2>1
  <2> QED BY <2>2
<1>4. Good(built)
  <2> HIDE DEF Good
  <2> QED BY <1>3
<1>5. Chunks(sizes) = built[n]
  <2> Len(sizes) = n OBVIOUS
  <2> QED BY DEF Chunks
<1> HIDE DEF built
<1>6. built[0] = <<>> /\ \A i \in 1..n : built[i] = AddChunk(built[i - 1], sizes[i])
  BY <1>4
<1>7. 0..n \subseteq S
  <2>1. 0 \in S
    BY <1>1, <1>6
  <2>2. \A i \in 1..n : i - 1 \in S => i \in S
    BY <1>1, <1>6
  <2> HIDE DEF S
  <2> QED BY <2>1, <2>2, Rounds
<1>8. built \in [0..n -> V]
  BY <1>4, <1>7
<1> QED BY <1>5, <1>6, <1>8 DEF V
--------------------------------------------------------------------------------
(* Chunks without gaps *)

Gapless(chunks) ==
  /\ chunks \in Seq(Chunk)
  /\ \A i \in 1..Len(chunks) :
       /\ chunks[i].offset = IF i = 1 THEN 0 ELSE chunks[i - 1].offset + chunks[i - 1].size
       /\ chunks[i].offset + chunks[i].size <= Size(chunks)

\* The size of an object is a number of bytes.
LEMMA SizeType == ASSUME NEW chunks \in Seq(Chunk) PROVE Size(chunks) \in Nat
<1>1. CASE chunks = <<>>
  BY <1>1 DEF Size
<1>2. CASE chunks # <<>>
  <2>1. Len(chunks) \in 1..Len(chunks)
    BY <1>2
  <2>2. Last(chunks) \in Chunk
    BY <2>1 DEF Last
  <2> QED BY <1>2, <2>2 DEF Size, Chunk
<1> QED BY <1>1, <1>2

\* A further chunk starts where the others end.
LEMMA AddChunkGapless ==
  ASSUME NEW chunks, Gapless(chunks), NEW size \in Nat
  PROVE  Gapless(AddChunk(chunks, size))
<1> DEFINE new == [offset |-> Size(chunks), size |-> size]
           more == AddChunk(chunks, size)
<1>1. chunks \in Seq(Chunk) /\ Size(chunks) \in Nat /\ new \in Chunk
  BY SizeType DEF Gapless, Chunk
<1>2. /\ more \in Seq(Chunk) /\ Len(more) = Len(chunks) + 1 /\ more # <<>>
      /\ \A i \in 1..Len(chunks) : more[i] = chunks[i]
      /\ more[Len(chunks) + 1] = new
  <2> HIDE DEF new
  <2> QED BY <1>1, AppendProperties DEF AddChunk, new
<1>3. Size(more) = Size(chunks) + size
  <2> HIDE DEF more
  <2>1. Size(more) = more[Len(more)].offset + more[Len(more)].size
    BY <1>2 DEF Size, Last
  <2> QED BY <1>2, <2>1
<1>4. chunks # <<>> => Size(chunks) = chunks[Len(chunks)].offset + chunks[Len(chunks)].size
  BY DEF Size, Last
<1> HIDE DEF more
<1>5. ASSUME NEW i \in 1..Len(more)
      PROVE  /\ more[i].offset = IF i = 1 THEN 0 ELSE more[i - 1].offset + more[i - 1].size
             /\ more[i].offset + more[i].size <= Size(more)
  <2>1. CASE i <= Len(chunks)
    <3>1. i \in 1..Len(chunks) /\ (i # 1 => i - 1 \in 1..Len(chunks))
      BY <1>1, <2>1
    <3>2. chunks[i] \in Chunk
      BY <1>1, <3>1
    <3>3. more[i] = chunks[i] /\ (i # 1 => more[i - 1] = chunks[i - 1])
      BY <1>2, <3>1
    <3>4. /\ chunks[i].offset = IF i = 1 THEN 0 ELSE chunks[i - 1].offset + chunks[i - 1].size
          /\ chunks[i].offset + chunks[i].size <= Size(chunks)
      BY <3>1 DEF Gapless
    <3>5. chunks[i].offset + chunks[i].size <= Size(chunks) + size
      BY <1>1, <3>2, <3>4 DEF Chunk
    <3> QED BY <1>3, <3>3, <3>4, <3>5
  <2>2. CASE i = Len(chunks) + 1
    <3>1. CASE chunks = <<>>
      BY <1>1, <1>2, <1>3, <2>2, <3>1 DEF Size
    <3>2. CASE chunks # <<>>
      <4>1. i - 1 \in 1..Len(chunks) /\ i - 1 = Len(chunks)
        BY <1>1, <2>2, <3>2
      <4> QED BY <1>1, <1>2, <1>3, <1>4, <2>2, <3>2, <4>1
    <3> QED BY <3>1, <3>2
  <2> QED BY <1>1, <1>2, <2>1, <2>2
<1> QED BY <1>2, <1>5 DEF Gapless, more

\* What buildMultipartObject makes has no gaps, however many parts there are.
LEMMA ChunksGapless ==
  ASSUME NEW n \in Nat, NEW sizes \in [1..n -> Nat]
  PROVE  Gapless(Chunks(sizes))
<1>1. PICK built \in [0..n -> Seq(Chunk)] :
        /\ built[0] = <<>> /\ built[n] = Chunks(sizes)
        /\ \A i \in 1..n : built[i] = AddChunk(built[i - 1], sizes[i])
  BY ChunksBuilt
<1> DEFINE S == {i \in 0..n : Gapless(built[i])}
<1>2. 0 \in S
  BY <1>1 DEF Gapless
<1>3. \A i \in 1..n : i - 1 \in S => i \in S
  BY <1>1, AddChunkGapless
<1>4. 0..n \subseteq S
  <2> HIDE DEF S
  <2> QED BY <1>2, <1>3, Rounds
<1> QED BY <1>1, <1>4
--------------------------------------------------------------------------------
(* What is selected of them *)

Selection == [chunk : Chunk, skip : Nat, take : Nat]
Pos(s) == s.chunk.offset + s.skip
Past(s) == Pos(s) + s.take

\* Selections that cover the bytes from start up to stop without a gap.
Joined(selected, start, stop) ==
  /\ selected \in Seq(Selection)
  /\ start \in Nat /\ stop \in Nat /\ start <= stop
  /\ selected = <<>> => start = stop
  /\ selected # <<>> => Past(selected[Len(selected)]) = stop
  /\ \A i \in 1..Len(selected) :
       /\ Pos(selected[i]) = IF i = 1 THEN start ELSE Past(selected[i - 1])
       /\ Past(selected[i]) <= stop

\* All chunks taken whole are the object from its first byte to its last.
LEMMA WholeJoined ==
  ASSUME NEW chunks, Gapless(chunks)
  PROVE  Joined([i \in DOMAIN chunks |-> Whole(chunks[i])], 0, Size(chunks))
<1> DEFINE selected == [i \in DOMAIN chunks |-> Whole(chunks[i])]
<1>1. chunks \in Seq(Chunk) /\ Size(chunks) \in Nat /\ DOMAIN chunks = 1..Len(chunks) /\ Len(chunks) \in Nat
  BY SizeType DEF Gapless
<1>2. \A i \in 1..Len(chunks) : chunks[i] \in Chunk
  BY <1>1
<1>3. \A i \in 1..Len(chunks) : Whole(chunks[i]) \in Selection
  BY <1>2 DEF Whole, Selection, Chunk
<1>4. selected \in Seq(Selection) /\ Len(selected) = Len(chunks)
  BY <1>1, <1>3
<1>5. \A i \in 1..Len(chunks) :
        Pos(selected[i]) = chunks[i].offset /\ Past(selected[i]) = chunks[i].offset + chunks[i].size
  BY <1>1, <1>2 DEF Whole, Pos, Past, Chunk
<1>6. selected = <<>> <=> chunks = <<>>
  BY <1>1, <1>4
<1> HIDE DEF selected
<1>7. selected = <<>> => Size(chunks) = 0
  BY <1>6 DEF Size
<1>8. selected # <<>> => Past(selected[Len(selected)]) = Size(chunks)
  <2>1. selected # <<>> => Len(chunks) \in 1..Len(chunks)
    BY <1>1, <1>6
  <2> QED BY <1>4, <1>5, <1>6, <2>1 DEF Size, Last
<1>9. \A i \in 1..Len(selected) :
        /\ Pos(selected[i]) = IF i = 1 THEN 0 ELSE Past(selected[i - 1])
        /\ Past(selected[i]) <= Size(chunks)
  <2> TAKE i \in 1..Len(selected)
  <2>1. i \in 1..Len(chunks) /\ (i # 1 => i - 1 \in 1..Len(chunks))
    BY <1>1, <1>4
  <2> QED BY <1>5, <2>1 DEF Gapless
<1> QED BY <1>1, <1>4, <1>7, <1>8, <1>9 DEF Joined, selected

\* Where the selection of the chunks up to size ends.
StopAt(r, size) == r.start + Greatest(0, Least(r.end + 1, size) - r.start)

\* What the loop has selected when it has seen the first size bytes.
Covers(selected, r, size) ==
  /\ Joined(selected, r.start, StopAt(r, size))
  /\ selected # <<>> => r.start < StopAt(r, size)

\* A round of SelectChunksForRange goes on where the previous ones ended, also over
\* chunks without bytes and chunks that the range does not reach.
LEMMA SelectCovers ==
  ASSUME NEW r \in ByteRange, r.start <= r.end, NEW chunk \in Chunk,
         NEW selected, Covers(selected, r, chunk.offset)
  PROVE  Covers(Select(selected, chunk, r), r, chunk.offset + chunk.size)
<1> DEFINE E == chunk.offset
           F == chunk.offset + chunk.size
           crop == Crop(chunk, r)
           more == Append(selected, crop)
<1>1. r.start \in Nat /\ r.end \in Nat /\ E \in Nat /\ F \in Nat /\ E <= F /\ chunk.size \in Nat
  BY DEF ByteRange, Chunk
<1>2. StopAt(r, E) \in Nat /\ StopAt(r, F) \in Nat /\ StopAt(r, E) <= StopAt(r, F) /\ r.start <= StopAt(r, F)
  BY <1>1 DEF StopAt, Greatest, Least
<1>3. CASE ~Overlaps(chunk, r)
  <2>1. Select(selected, chunk, r) = selected
    BY <1>3 DEF Select
  <2>2. StopAt(r, F) = StopAt(r, E)
    <3>1. CASE selected = <<>>
      <4>1. StopAt(r, E) = r.start
        BY <3>1 DEF Covers, Joined
      <4> QED BY <1>1, <1>3, <4>1 DEF Overlaps, StopAt, Greatest, Least
    <3>2. CASE selected # <<>>
      <4>1. r.start < StopAt(r, E)
        BY <3>2 DEF Covers
      <4> QED BY <1>1, <1>3, <4>1 DEF Overlaps, StopAt, Greatest, Least
    <3> QED BY <3>1, <3>2
  <2> QED BY <2>1, <2>2 DEF Covers
<1>4. CASE Overlaps(chunk, r)
  <2>1. Select(selected, chunk, r) = more
    BY <1>4 DEF Select
  <2>2. /\ crop \in Selection
        /\ Pos(crop) = Greatest(E, r.start)
        /\ Past(crop) = Least(F - 1, r.end) + 1
    BY <1>1, <1>4 DEF Crop, Selection, Pos, Past, Greatest, Least, Overlaps
  <2>3. Past(crop) = StopAt(r, F) /\ r.start < StopAt(r, F)
    BY <1>1, <1>4, <2>2 DEF StopAt, Greatest, Least, Overlaps
  <2>4. Pos(crop) = IF selected = <<>> THEN r.start ELSE Past(selected[Len(selected)])
    <3>1. CASE selected = <<>>
      <4>1. StopAt(r, E) = r.start
        BY <3>1 DEF Covers, Joined
      <4> QED BY <1>1, <1>4, <2>2, <3>1, <4>1 DEF Overlaps, StopAt, Greatest, Least
    <3>2. CASE selected # <<>>
      <4>1. r.start < StopAt(r, E) /\ Past(selected[Len(selected)]) = StopAt(r, E)
        BY <3>2 DEF Covers, Joined
      <4> QED BY <1>1, <1>4, <2>2, <3>2, <4>1 DEF Overlaps, StopAt, Greatest, Least
    <3> QED BY <3>1, <3>2
  <2>5. selected \in Seq(Selection) /\ Len(selected) \in Nat
    BY DEF Covers, Joined
  <2> HIDE DEF crop
  <2>6. /\ more \in Seq(Selection) /\ Len(more) = Len(selected) + 1 /\ more # <<>>
        /\ \A i \in 1..Len(selected) : more[i] = selected[i]
        /\ more[Len(selected) + 1] = crop
    BY <2>2, <2>5, AppendProperties
  <2> HIDE DEF more
  <2>7. ASSUME NEW i \in 1..Len(more)
        PROVE  /\ Pos(more[i]) = IF i = 1 THEN r.start ELSE Past(more[i - 1])
               /\ Past(more[i]) <= StopAt(r, F)
    <3>1. CASE i <= Len(selected)
      <4>1. i \in 1..Len(selected) /\ (i # 1 => i - 1 \in 1..Len(selected))
        BY <2>5, <3>1
      <4>2. /\ Pos(selected[i]) = IF i = 1 THEN r.start ELSE Past(selected[i - 1])
            /\ Past(selected[i]) <= StopAt(r, E)
        BY <4>1 DEF Covers, Joined
      <4>3. selected[i] \in Selection
        BY <2>5, <4>1
      <4>4. Past(selected[i]) \in Nat
        BY <4>3 DEF Past, Pos, Selection, Chunk
      <4>5. Past(selected[i]) <= StopAt(r, F)
        BY <1>2, <4>2, <4>4
      <4> QED BY <2>6, <4>1, <4>2, <4>5
    <3>2. CASE i = Len(selected) + 1
      <4>1. CASE selected = <<>>
        BY <1>2, <2>3, <2>4, <2>6, <3>2, <4>1
      <4>2. CASE selected # <<>>
        <5>1. i - 1 \in 1..Len(selected) /\ i - 1 = Len(selected) /\ i # 1
          BY <2>5, <3>2, <4>2
        <5> QED BY <1>2, <2>3, <2>4, <2>6, <3>2, <4>2, <5>1
      <4> QED BY <4>1, <4>2
    <3> QED BY <2>5, <2>6, <3>1, <3>2
  <2>8. Past(more[Len(more)]) = StopAt(r, F)
    BY <2>3, <2>6
  <2> QED BY <1>1, <1>2, <2>1, <2>3, <2>6, <2>7, <2>8 DEF Covers, Joined
<1> QED BY <1>3, <1>4

\* Where chunk i ends, and where the first one starts.
EndOf(chunks, i) == IF i = 0 THEN 0 ELSE chunks[i].offset + chunks[i].size

\* What a round adds takes bytes within its chunk.
LEMMA SelectType ==
  ASSUME NEW r \in ByteRange, r.start <= r.end, NEW chunk \in Chunk, NEW selected \in Seq(Selection)
  PROVE  Select(selected, chunk, r) \in Seq(Selection)
<1>1. CASE Overlaps(chunk, r)
  <2>1. Crop(chunk, r) \in Selection
    <3> DEFINE first == Greatest(chunk.offset, r.start)
               last == Least(chunk.offset + chunk.size - 1, r.end)
    <3>1. /\ chunk.offset \in Nat /\ chunk.size \in Nat /\ r.start \in Nat /\ r.end \in Nat
          /\ chunk.size > 0 /\ chunk.offset + chunk.size - 1 >= r.start /\ chunk.offset <= r.end
      BY <1>1 DEF Overlaps, Chunk, ByteRange
    <3>2. first - chunk.offset \in Nat /\ last - first + 1 \in Int
      BY <3>1, SMTT(20) DEF Greatest, Least
    <3>3. r.start <= r.end => last - first + 1 \in Nat
      BY <3>1, SMTT(20) DEF Greatest, Least
    <3> HIDE DEF first, last
    <3> QED BY <3>2, <3>3 DEF Crop, Selection, first, last
  <2> QED BY <1>1, <2>1 DEF Select
<1>2. CASE ~Overlaps(chunk, r)
  BY <1>2 DEF Select
<1> QED BY <1>1, <1>2

\* The selection as the rounds of SelectChunksForRange build it.
LEMMA SelectedBuilt ==
  ASSUME NEW n \in Nat, NEW chunks \in Seq(Chunk), Len(chunks) = n,
         NEW r \in ByteRange, r.start <= r.end
  PROVE  \E built : /\ built[0] = <<>> /\ built[n] = Selected(chunks, r)
                    /\ \A i \in 1..n : built[i] = Select(built[i - 1], chunks[i], r)
<1> DEFINE V == Seq(Selection)
           g == [p \in V \X (1..n) |-> Select(p[1], chunks[p[2]], r)]
           Good(f) == f = [i \in 0..n |-> IF i = 0 THEN <<>> ELSE Select(f[i - 1], chunks[i], r)]
           built == CHOOSE f : Good(f)
<1>1. <<>> \in V /\ \A c \in V, i \in 1..n : Select(c, chunks[i], r) \in V
  BY SelectType
<1> HIDE DEF V
<1>2. PICK f \in [0..n -> V] : f[0] = <<>> /\ \A i \in 1..n : f[i] = g[<<f[i - 1], i>>]
  <2>1. g \in [V \X (1..n) -> V]
    BY <1>1
  <2> HIDE DEF g
  <2>2. PICK f : Loop(f, n, V, <<>>, g)
    BY <1>1, <2>1, LoopDefined
  <2> QED BY <2>2 DEF Loop
<1>3. Good(f)
  <2>1. ASSUME NEW i \in 1..n PROVE f[i] = Select(f[i - 1], chunks[i], r)
    <3>1. f[i - 1] \in V
      BY <1>2
    <3> QED BY <1>2, <3>1
  <2>2. \A i \in 0..n : f[i] = IF i = 0 THEN <<>> ELSE Select(f[i - 1], chunks[i], r)
    BY <1>2, <2>1
  <2> QED BY <2>2
<1>4. Good(built)
  <2> HIDE DEF Good
  <2> QED BY <1>3
<1>5. Selected(chunks, r) = built[n]
  <2> r # NoRange
    BY NoneAssumption DEF NoRange
  <2> QED BY DEF Selected
<1> HIDE DEF built
<1>6. built[0] = <<>> /\ \A i \in 1..n : built[i] = Select(built[i - 1], chunks[i], r)
  BY <1>4
<1> QED BY <1>5, <1>6

\* SelectChunksForRange cuts the range out of the chunks: all of it that is there.
LEMMA SelectedCovers ==
  ASSUME NEW chunks, Gapless(chunks), NEW r \in ByteRange, r.start <= r.end
  PROVE  Joined(Selected(chunks, r), r.start, StopAt(r, Size(chunks)))
<1> DEFINE n == Len(chunks)
<1>1. chunks \in Seq(Chunk) /\ n \in Nat
  BY DEF Gapless
<1>2. PICK built : /\ built[0] = <<>> /\ built[n] = Selected(chunks, r)
                   /\ \A i \in 1..n : built[i] = Select(built[i - 1], chunks[i], r)
  BY <1>1, SelectedBuilt
<1> DEFINE S == {i \in 0..n : Covers(built[i], r, EndOf(chunks, i))}
<1>3. 0 \in S
  <2>1. StopAt(r, 0) = r.start /\ r.start \in Nat
    BY DEF StopAt, Greatest, Least, ByteRange
  <2>2. Covers(<<>>, r, 0)
    BY <2>1 DEF Covers, Joined
  <2> QED BY <1>1, <1>2, <2>2 DEF EndOf
<1>4. \A i \in 1..n : i - 1 \in S => i \in S
  <2> SUFFICES ASSUME NEW i \in 1..n, Covers(built[i - 1], r, EndOf(chunks, i - 1))
               PROVE  Covers(built[i], r, EndOf(chunks, i))
    OBVIOUS
  <2>1. chunks[i] \in Chunk /\ EndOf(chunks, i - 1) = chunks[i].offset
    BY <1>1 DEF Gapless, EndOf
  <2> QED BY <1>2, <2>1, SelectCovers DEF EndOf
<1>5. 0..n \subseteq S
  <2> HIDE DEF S
  <2> QED BY <1>1, <1>3, <1>4, Rounds
<1>6. EndOf(chunks, n) = Size(chunks)
  <2>1. n = 0 <=> chunks = <<>>
    BY <1>1
  <2> QED BY <2>1 DEF EndOf, Size, Last
<1> QED BY <1>1, <1>2, <1>5, <1>6 DEF Covers
--------------------------------------------------------------------------------
(* Runs of bytes *)

\* n bytes of a version, from byte start on.
Run(version, start, n) == [i \in 1..n |-> <<version, start + i - 1>>]

\* A run consists of its bytes, one by one.
LEMMA RunType ==
  ASSUME NEW version \in Nat, NEW start \in Nat, NEW n \in Nat
  PROVE  /\ Run(version, start, n) \in Seq(Byte)
         /\ Len(Run(version, start, n)) = n
         /\ \A i \in 1..n : Run(version, start, n)[i] = <<version, start + i - 1>>
<1>1. Run(version, start, n) \in [1..n -> Byte]
  BY DEF Run, Byte
<1>2. \A i \in 1..n : Run(version, start, n)[i] = <<version, start + i - 1>>
  BY DEF Run
<1>3. Run(version, start, n) \in Seq(Byte) /\ Len(Run(version, start, n)) = n
  <2> HIDE DEF Run
  <2> QED BY <1>1 
<1> QED BY <1>2, <1>3

\* The bytes say which run it is.
LEMMA SameRun ==
  ASSUME NEW version \in Nat, NEW start \in Nat, NEW n \in Nat,
         NEW s \in Seq(Byte), Len(s) = n, \A i \in 1..n : s[i] = <<version, start + i - 1>>
  PROVE  s = Run(version, start, n)
<1>1. s = [i \in 1..n |-> s[i]]
  OBVIOUS
<1>2. [i \in 1..n |-> s[i]] = [i \in 1..n |-> <<version, start + i - 1>>]
  OBVIOUS
<1> QED BY <1>1, <1>2 DEF Run

\* s is such a run.
IsRun(s, version, start, n) ==
  s \in Seq(Byte) /\ Len(s) = n /\ \A i \in 1..n : s[i] = <<version, start + i - 1>>

\* A run is one.
LEMMA RunIsRun ==
  ASSUME NEW version \in Nat, NEW start \in Nat, NEW n \in Nat
  PROVE  IsRun(Run(version, start, n), version, start, n)
BY RunType DEF IsRun

\* There is one run of a version from a byte on, of a length.
LEMMA IsRunRun ==
  ASSUME NEW version \in Nat, NEW start \in Nat, NEW n \in Nat, NEW s, IsRun(s, version, start, n)
  PROVE  s = Run(version, start, n)
BY SameRun DEF IsRun

\* next comes n after start (a name, so that the provers can match the sum).
Follows(next, start, n) == next = start + n

\* Two runs of which the second goes on where the first one ended are one run.
LEMMA RunsConcatenated ==
  ASSUME NEW version \in Nat, NEW start \in Nat, NEW m \in Nat, NEW n \in Nat,
         NEW next, Follows(next, start, m), NEW all, Follows(all, m, n),
         NEW s, IsRun(s, version, start, m), NEW t, IsRun(t, version, next, n)
  PROVE  IsRun(s \o t, version, start, all)
<1> DEFINE both == s \o t
<1>1. /\ s \in Seq(Byte) /\ Len(s) = m /\ \A i \in 1..m : s[i] = <<version, start + i - 1>>
      /\ t \in Seq(Byte) /\ Len(t) = n /\ \A i \in 1..n : t[i] = <<version, start + m + i - 1>>
  BY DEF IsRun, Follows
<1>2. both \in Seq(Byte) /\ Len(both) = m + n
  BY <1>1, ConcatProperties
<1>3. ASSUME NEW i \in 1..(m + n) PROVE both[i] = <<version, start + i - 1>>
  <2>1. CASE i <= m
    <3>1. i \in 1..m /\ both[i] = s[i]
      BY <1>1, <2>1
    <3> QED BY <1>1, <3>1
  <2>2. CASE i > m
    <3>1. i - m \in 1..n /\ both[i] = t[i - m]
      BY <1>1, <2>2
    <3>2. start + m + (i - m) - 1 = start + i - 1
      OBVIOUS
    <3>3. \A k \in 1..n : t[k] = <<version, start + m + k - 1>>
      BY <1>1
    <3>4. t[i - m] = <<version, start + m + (i - m) - 1>>
      BY <3>1, <3>3, Zenon
    <3> QED BY <3>1, <3>2, <3>4
  <2> HIDE DEF both
  <2> QED BY <2>1, <2>2
<1> HIDE DEF both
<1>4. all = m + n
  BY DEF Follows
<1>5. IsRun(both, version, start, all)
  BY <1>2, <1>3, <1>4 DEF IsRun
<1> QED BY <1>5 DEF both

\* What is copied of a chunk is a run from where the selection starts.
LEMMA BytesAreRun ==
  ASSUME NEW s, NEW version, NEW n
  PROVE  Bytes(s, version, n) = Run(version, Pos(s), n)
BY DEF Bytes, Run, Pos

\* A shorter run from the same byte is a prefix of a longer one.
LEMMA RunPrefix ==
  ASSUME NEW version \in Nat, NEW start \in Nat, NEW m \in Nat, NEW n \in Nat, m <= n
  PROVE  IsPrefix(Run(version, start, m), Run(version, start, n))
<1> DEFINE s == Run(version, start, m)
           t == Run(version, start, n)
<1>1. /\ s \in Seq(Byte) /\ Len(s) = m /\ \A i \in 1..m : s[i] = <<version, start + i - 1>>
      /\ t \in Seq(Byte) /\ Len(t) = n /\ \A i \in 1..n : t[i] = <<version, start + i - 1>>
  BY RunType
<1> HIDE DEF s, t
<1>2. SubSeq(s, 1, m) = [i \in 1..m |-> s[i]] /\ SubSeq(t, 1, m) = [i \in 1..m |-> t[i]]
  BY <1>1
<1>3. [i \in 1..m |-> s[i]] = [i \in 1..m |-> t[i]]
  <2>1. \A i \in 1..m : i \in 1..n
    OBVIOUS
  <2>2. \A i \in 1..m : s[i] = t[i]
    BY <1>1, <2>1
  <2> QED BY <2>2
<1>4. IsPrefix(s, t)
  BY <1>1, <1>2, <1>3 DEF IsPrefix
<1> QED BY <1>4 DEF s, t

\* The next chunk goes on where the reader stands, the rest where that chunk ends.
LEMMA HeadJoined ==
  ASSUME NEW left, NEW start, NEW stop, Joined(left, start, stop), left # <<>>
  PROVE  /\ Head(left) \in Selection /\ Pos(Head(left)) = start
         /\ start + Head(left).take = Past(Head(left)) /\ Past(Head(left)) <= stop
         /\ Joined(Tail(left), Past(Head(left)), stop)
<1> DEFINE n == Len(left)
           rest == Tail(left)
<1>1. /\ left \in Seq(Selection) /\ n \in Nat /\ n > 0 /\ 1 \in 1..n
      /\ start \in Nat /\ stop \in Nat
  BY DEF Joined
<1>2. Head(left) = left[1] /\ left[1] \in Selection
  BY <1>1
<1>3. Pos(left[1]) = start /\ Past(left[1]) <= stop
  BY <1>1 DEF Joined
<1>4. Past(left[1]) = start + left[1].take /\ left[1].take \in Nat
  BY <1>2, <1>3 DEF Past, Selection
<1>5. /\ rest \in Seq(Selection) /\ Len(rest) = n - 1
      /\ \A i \in 1..(n - 1) : rest[i] = left[i + 1]
  BY <1>1
<1> HIDE DEF rest
<1>6. rest = <<>> <=> n = 1
  <2>1. rest = <<>> <=> Len(rest) = 0
    BY <1>5
  <2> QED BY <1>1, <1>5, <2>1
<1>7. rest = <<>> => Past(left[1]) = stop
  BY <1>6 DEF Joined
<1>8. rest # <<>> => Past(rest[Len(rest)]) = stop
  <2>1. \A k \in Nat : k > 0 /\ k # 1 => k - 1 \in 1..(k - 1) /\ (k - 1) + 1 = k
    OBVIOUS
  <2>2. Past(left[n]) = stop
    BY DEF Joined
  <2> QED BY <1>1, <1>5, <1>6, <2>1, <2>2
<1>9. ASSUME NEW i \in 1..Len(rest)
      PROVE  /\ Pos(rest[i]) = IF i = 1 THEN Past(left[1]) ELSE Past(rest[i - 1])
             /\ Past(rest[i]) <= stop
  <2>1. i \in 1..(n - 1) /\ i + 1 \in 1..n /\ i + 1 # 1 /\ (i + 1) - 1 = i
    BY <1>1, <1>5
  <2>2. rest[i] = left[i + 1]
    BY <1>5, <2>1
  <2>3. i # 1 => i - 1 \in 1..(n - 1) /\ rest[i - 1] = left[(i - 1) + 1] /\ (i - 1) + 1 = i
    BY <1>5, <2>1
  <2>4. /\ Pos(left[i + 1]) = Past(left[(i + 1) - 1])
        /\ Past(left[i + 1]) <= stop
    BY <2>1 DEF Joined
  <2>5. i = 1 => left[i] = left[1]
    OBVIOUS
  <2> QED BY <2>1, <2>2, <2>3, <2>4, <2>5
<1>10. Past(left[1]) \in Nat
  BY <1>1, <1>4
<1>11. Joined(rest, Past(left[1]), stop)
  BY <1>1, <1>3, <1>5, <1>7, <1>8, <1>9, <1>10 DEF Joined
<1> QED BY <1>2, <1>3, <1>4, <1>11 DEF rest

\* f[i] is what the first i of n sequences make when put one behind the other.
Beginnings(f, seqs, n) ==
  /\ f = [i \in 1..n |-> f[i]] /\ f[1] = seqs[1]
  /\ \A i \in 2..n : f[i] = f[i - 1] \o seqs[i]

\* FlattenSeq makes of n sequences what their beginnings grow to.
LEMMA Flattened ==
  ASSUME NEW n \in Nat, n > 0, NEW seqs, Len(seqs) = n, NEW f, Beginnings(f, seqs, n)
  PROVE  FlattenSeq(seqs) = f[n]
<1> DEFINE Good(h) == h = [i \in 1..n |-> IF i = 1 THEN seqs[i] ELSE h[i - 1] \o seqs[i]]
           flat == CHOOSE h : Good(h)
           S == {0} \cup {i \in 1..n : flat[i] = f[i]}
<1>1. Good(f)
  <2>1. \A i \in 1..n : f[i] = IF i = 1 THEN seqs[i] ELSE f[i - 1] \o seqs[i]
    <3> TAKE i \in 1..n
    <3>1. i # 1 => i \in 2..n
      OBVIOUS
    <3> QED BY <3>1 DEF Beginnings
  <2>2. [i \in 1..n |-> f[i]] = [i \in 1..n |-> IF i = 1 THEN seqs[i] ELSE f[i - 1] \o seqs[i]]
    BY <2>1
  <2> QED BY <2>2 DEF Beginnings
<1>2. Good(flat)
  <2> HIDE DEF Good
  <2> QED BY <1>1
<1>3. FlattenSeq(seqs) = flat[n]
  BY DEF FlattenSeq
<1> HIDE DEF flat
<1>4. \A i \in 1..n : flat[i] = IF i = 1 THEN seqs[i] ELSE flat[i - 1] \o seqs[i]
  BY <1>2
<1>5. ASSUME NEW i \in 1..n, i - 1 \in S PROVE i \in S
  <2>1. CASE i = 1
    BY <1>4, <2>1 DEF Beginnings
  <2>2. CASE i # 1
    <3>1. i \in 2..n /\ i - 1 # 0
      BY <2>2
    <3>2. flat[i - 1] = f[i - 1]
      BY <1>5, <3>1
    <3>3. flat[i] = flat[i - 1] \o seqs[i] /\ f[i] = f[i - 1] \o seqs[i]
      BY <1>4, <2>2, <3>1 DEF Beginnings
    <3> QED BY <3>2, <3>3
  <2> QED BY <2>1, <2>2
<1>6. 0..n \subseteq S
  <2>1. 0 \in S
    OBVIOUS
  <2> HIDE DEF S
  <2> QED BY <1>5, <2>1, Rounds
<1>7. n \in S /\ n # 0
  <2> HIDE DEF S
  <2> QED BY <1>6
<1> QED BY <1>3, <1>7

\* io.ReadAll gets all the bytes the selected chunks stand for, in order.
LEMMA ReadAll ==
  ASSUME NEW left, NEW start, NEW stop, Joined(left, start, stop), NEW version \in Nat
  PROVE  FlattenSeq([i \in DOMAIN left |-> Bytes(left[i], version, left[i].take)])
           = Run(version, start, stop - start)
<1> DEFINE n == Len(left)
           seqs == [i \in 1..n |-> Bytes(left[i], version, left[i].take)]
           f == [i \in 1..n |-> Run(version, start, Past(left[i]) - start)]
<1>1. left \in Seq(Selection) /\ n \in Nat /\ DOMAIN left = 1..n /\ start \in Nat /\ stop \in Nat
  BY DEF Joined
<1>2. CASE n = 0
  <2>1. left = <<>> /\ stop - start = 0
    BY <1>1, <1>2 DEF Joined
  <2>2. seqs = <<>>
    BY <1>2
  <2>3. FlattenSeq(seqs) = <<>>
    <3> HIDE DEF seqs
    <3> QED BY <2>2 DEF FlattenSeq
  <2>4. Run(version, start, 0) = <<>>
    BY DEF Run
  <2> QED BY <1>1, <2>1, <2>3, <2>4
<1>3. CASE n > 0
  <2>1. \A i \in 1..n : seqs[i] = Run(version, Pos(left[i]), left[i].take)
    BY BytesAreRun
  <2>2. Len(seqs) = n
    BY <1>1
  <2>3. \A i \in 1..n : f[i] = Run(version, start, Past(left[i]) - start)
    OBVIOUS
  <2>4. f = [i \in 1..n |-> f[i]]
    OBVIOUS
  <2> HIDE DEF seqs, f
  <2>5. ASSUME NEW i \in 1..n
        PROVE  /\ left[i].take \in Nat /\ Pos(left[i]) \in Nat
               /\ Past(left[i]) = Pos(left[i]) + left[i].take
               /\ Pos(left[i]) = IF i = 1 THEN start ELSE Past(left[i - 1])
    <3>1. left[i] \in Selection
      BY <1>1
    <3>2. /\ left[i].take \in Nat /\ Pos(left[i]) \in Nat
          /\ Past(left[i]) = Pos(left[i]) + left[i].take
      BY <3>1 DEF Past, Pos, Selection, Chunk
    <3>3. Pos(left[i]) = IF i = 1 THEN start ELSE Past(left[i - 1])
      BY DEF Joined
    <3> QED BY <3>2, <3>3
  <2>6. \A i \in 1..n : Past(left[i]) \in Nat /\ Past(left[i]) >= start
    <3> DEFINE S == {0} \cup {i \in 1..n : Past(left[i]) \in Nat /\ Past(left[i]) >= start}
    <3>1. ASSUME NEW i \in 1..n, i - 1 \in S PROVE i \in S
      <4>1. Pos(left[i]) >= start
        BY <1>1, <2>5, <3>1
      <4> QED BY <1>1, <2>5, <4>1
    <3>2. 0..n \subseteq S
      <4>1. 0 \in S
        OBVIOUS
      <4> HIDE DEF S
      <4> QED BY <1>1, <3>1, <4>1, Rounds
    <3> QED BY <3>2
  <2>7. f[1] = seqs[1]
    <3>1. 1 \in 1..n
      BY <1>1, <1>3
    <3>2. Pos(left[1]) = start /\ Past(left[1]) - start = left[1].take
      BY <1>1, <2>5, <3>1
    <3> QED BY <2>1, <2>3, <3>1, <3>2
  <2>8. ASSUME NEW i \in 2..n PROVE f[i] = f[i - 1] \o seqs[i]
    <3>1. i \in 1..n /\ i - 1 \in 1..n /\ i # 1
      BY <1>1
    <3> DEFINE m == Past(left[i - 1]) - start
    <3>2. m \in Nat /\ Pos(left[i]) = start + m /\ Past(left[i]) - start = m + left[i].take
      <4>1. Past(left[i - 1]) \in Nat /\ Past(left[i - 1]) >= start
        BY <2>6, <3>1
      <4>2. /\ left[i].take \in Nat /\ Pos(left[i]) = Past(left[i - 1])
            /\ Past(left[i]) = Pos(left[i]) + left[i].take
        BY <2>5, <3>1
      <4> QED BY <1>1, <4>1, <4>2
    <3>3. f[i - 1] = Run(version, start, m)
      BY <2>3, <3>1
    <3>4. seqs[i] = Run(version, start + m, left[i].take)
      BY <2>1, <3>1, <3>2
    <3>5. f[i] = Run(version, start, m + left[i].take)
      BY <2>3, <3>1, <3>2
    <3>6. left[i].take \in Nat
      BY <2>5, <3>1
    <3> HIDE DEF m
    <3>7. IsRun(f[i - 1], version, start, m) /\ IsRun(seqs[i], version, start + m, left[i].take)
      BY <1>1, <3>2, <3>3, <3>4, <3>6, RunIsRun
    <3>8. Follows(start + m, start, m) /\ Follows(m + left[i].take, m, left[i].take)
      BY DEF Follows
    <3>9. IsRun(f[i - 1] \o seqs[i], version, start, m + left[i].take)
      BY <1>1, <3>2, <3>6, <3>7, <3>8, RunsConcatenated
    <3>10. m + left[i].take \in Nat
      BY <3>2, <3>6
    <3> QED BY <1>1, <3>5, <3>9, <3>10, IsRunRun
  <2>9. FlattenSeq(seqs) = f[n]
    <3>1. Beginnings(f, seqs, n)
      BY <2>4, <2>7, <2>8 DEF Beginnings
    <3> HIDE DEF n
    <3> QED BY <1>1, <1>3, <2>2, <3>1, Flattened
  <2>10. Past(left[n]) = stop /\ n \in 1..n
    BY <1>1, <1>3 DEF Joined
  <2> QED BY <1>1, <2>3, <2>9, <2>10 DEF seqs
<1> QED BY <1>1, <1>2, <1>3
--------------------------------------------------------------------------------
(* The range of a request *)

\* A valid range lies within the size it was parsed against.
LEMMA ParseRangeValid ==
  ASSUME NEW header \in Headers, NEW size \in Nat, ParseRange(header, size) # None
  PROVE  /\ ParseRange(header, size) \in ByteRange
         /\ ParseRange(header, size).start <= ParseRange(header, size).end
         /\ ParseRange(header, size).end < size
<1> DEFINE offsets == 0..(MaxChunks * MaxSize + 1)
<1>1. offsets \subseteq Nat
  OBVIOUS
<1> HIDE DEF offsets
<1>2. size > 0
  BY DEF ParseRange
<1>3. CASE header \in [form : {"suffix"}, n : offsets]
  BY <1>1, <1>2, <1>3 DEF ParseRange, ByteRange, Least
<1>4. CASE header \in [form : {"from"}, a : offsets]
  BY <1>1, <1>2, <1>4 DEF ParseRange, ByteRange, Least
<1>5. CASE header \in [form : {"span"}, a : offsets, b : offsets]
  BY <1>1, <1>2, <1>5 DEF ParseRange, ByteRange, Least
<1> QED BY <1>3, <1>4, <1>5 DEF Headers, offsets

--------------------------------------------------------------------------------
(* The inductive invariant *)

From(r) == IF r = NoRange THEN 0 ELSE r.start
Until(r, size) == IF r = NoRange THEN size ELSE StopAt(r, size)

Object == [version : Nat, chunks : Seq(Chunk)]
Info == [version : Nat, size : Nat]

TypeOK ==
  /\ object \in Object \cup {None}
  /\ versions \in Nat
  /\ get \in [at : {"idle", "open", "body", "broken", "done", "davOpen", "davRead"},
              range : ByteRange \cup {NoRange}, sized : Nat \cup {None},
              info : Info \cup {None}, left : Seq(Selection),
              buffer : Seq(Byte) \cup {None}, sent : Seq(Byte)]

\* What is committed has no gaps, and versions are counted up.
ObjectOK ==
  /\ object # None => Gapless(object.chunks) /\ object.version <= versions
  /\ get.sized # None => get.sized <= versions

\* A range lies in the size it was parsed against; if the object is still the one
\* that had that size, in the size of the object.
RangeOK ==
  /\ get.range # NoRange => get.range.start <= get.range.end
  /\ get.at = "open" =>
       /\ get.buffer = None /\ get.sent = <<>>
       /\ get.range # NoRange => get.sized \in Nat
       /\ get.range # NoRange /\ object # None =>
            (get.sized = object.version => get.range.end < Size(object.chunks))
  /\ Responding =>
       /\ get.info \in Info
       /\ get.range # NoRange =>
            (get.buffer # None \/ get.sized = get.info.version => get.range.end < get.info.size)

\* What was sent is a run of one version, and what is left goes on where it ends.
ProgressOK ==
  /\ get.at \in {"body", "broken"} =>
       /\ get.sent = Run(get.info.version, From(get.range), Len(get.sent))
       /\ From(get.range) + Len(get.sent) <= Until(get.range, get.info.size)
  /\ get.at = "body" =>
       /\ get.buffer = None
       /\ Joined(get.left, From(get.range) + Len(get.sent), Until(get.range, get.info.size))
  /\ get.at = "done" =>
       get.sent = Run(get.info.version, From(get.range),
                      Until(get.range, get.info.size) - From(get.range))

\* The buffer of a WebDAV file is the whole of one version.
BufferOK ==
  /\ get.at \in {"davOpen", "davRead"} => get.range = NoRange
  /\ get.at = "davOpen" => get.buffer = None
  /\ get.at = "davRead" =>
       /\ get.info \in Info
       /\ get.buffer = None => Joined(get.left, 0, get.info.size)
       /\ get.buffer # None => get.buffer = Run(get.info.version, 0, get.info.size)

IInv == TypeOK /\ ObjectOK /\ RangeOK /\ ProgressOK /\ BufferOK

\* The bytes asked for start at From and end before Until.
LEMMA Bounds ==
  ASSUME NEW r \in ByteRange \cup {NoRange}, NEW size \in Nat
  PROVE  From(r) \in Nat /\ Until(r, size) \in Nat /\ From(r) <= Until(r, size)
<1>1. CASE r = NoRange
  BY <1>1 DEF From, Until
<1>2. CASE r # NoRange
  <2>1. r.start \in Nat /\ r.end \in Nat
    BY <1>2 DEF ByteRange
  <2> QED BY <1>2, <2>1 DEF From, Until, StopAt, Greatest, Least
<1> QED BY <1>1, <1>2

\* What a response must be is a run too.
LEMMA WantedIsRun ==
  ASSUME NEW info \in Info, NEW r \in ByteRange \cup {NoRange}
  PROVE  Wanted(info, r) = Run(info.version, From(r), Until(r, info.size) - From(r))
<1>1. info.size \in Nat
  BY DEF Info
<1>2. CASE r = NoRange
  <2>1. Greatest(0, info.size - 0) = info.size - 0
    BY <1>1 DEF Greatest
  <2> QED BY <1>2, <2>1 DEF Wanted, Run, From, Until
<1>3. CASE r # NoRange
  <2>1. r.start \in Nat /\ r.end \in Nat
    BY <1>3 DEF ByteRange
  <2>2. Until(r, info.size) - From(r) = Greatest(0, Least(r.end + 1, info.size) - r.start)
    BY <1>1, <1>3, <2>1 DEF From, Until, StopAt, Greatest, Least
  <2>3. From(r) = r.start
    BY <1>3 DEF From
  <2> QED BY <1>3, <2>2, <2>3 DEF Wanted, Run
<1> QED BY <1>2, <1>3

\* With a range or without: the selection is what was asked for, as far as it exists.
LEMMA SelectedJoined ==
  ASSUME NEW chunks, Gapless(chunks), NEW r \in ByteRange \cup {NoRange},
         r # NoRange => r.start <= r.end
  PROVE  Joined(Selected(chunks, r), From(r), Until(r, Size(chunks)))
<1>1. CASE r = NoRange
  <2>1. Selected(chunks, r) = [i \in DOMAIN chunks |-> Whole(chunks[i])]
    BY <1>1 DEF Selected
  <2> QED BY <1>1, <2>1, WholeJoined DEF From, Until
<1>2. CASE r # NoRange
  BY <1>2, SelectedCovers DEF From, Until
<1> QED BY <1>1, <1>2

\* A range cut out of the buffer is the run it asks for.
LEMMA RunCut ==
  ASSUME NEW version \in Nat, NEW size \in Nat, NEW stop \in 0..(size - 1), NEW start \in 0..stop
  PROVE  /\ SubSeq(Run(version, 0, size), start + 1, stop + 1) \in Seq(Byte)
         /\ SubSeq(Run(version, 0, size), start + 1, stop + 1)
              = Run(version, start, stop + 1 - start)
<1> DEFINE s == Run(version, 0, size)
           n == stop + 1 - start
           cut == SubSeq(s, start + 1, stop + 1)
<1>1. /\ s \in Seq(Byte) /\ Len(s) = size /\ \A i \in 1..size : s[i] = <<version, 0 + i - 1>>
  BY RunType
<1> HIDE DEF s
<1>2. n \in Nat /\ start \in Nat /\ start + 1 \in 1..(size + 1) /\ stop + 1 \in start..size
  OBVIOUS
<1>3. cut \in Seq(Byte) /\ Len(cut) = n /\ \A i \in 1..n : cut[i] = s[start + 1 + i - 1]
  BY <1>1, <1>2, SubSeqProperties
<1>4. ASSUME NEW i \in 1..n PROVE cut[i] = <<version, start + i - 1>>
  <2>1. start + 1 + i - 1 \in 1..size /\ 0 + (start + 1 + i - 1) - 1 = start + i - 1
    BY <1>2
  <2>2. s[start + 1 + i - 1] = <<version, 0 + (start + 1 + i - 1) - 1>>
    BY <1>1, <2>1, Zenon
  <2> QED BY <1>3, <2>1, <2>2
<1> HIDE DEF cut, n
<1>5. cut = Run(version, start, n)
  BY <1>2, <1>3, <1>4, SameRun
<1> QED BY <1>3, <1>5 DEF cut, n, s

\* Nothing has been written, nothing asked for.
LEMMA InitInvariant == Init => IInv
<1> SUFFICES ASSUME Init PROVE IInv
  OBVIOUS
<1>1. object = None /\ versions = 0 /\ get = Idle
  BY DEF Init
<1>2. TypeOK
  BY <1>1 DEF TypeOK, Idle
<1>3. ObjectOK /\ RangeOK /\ ProgressOK /\ BufferOK
  BY <1>1 DEF ObjectOK, RangeOK, ProgressOK, BufferOK, Idle, Responding
<1> QED BY <1>2, <1>3 DEF IInv
--------------------------------------------------------------------------------
(* Each action preserves the invariant *)

\* A writer replaces the object; nobody has read the new version yet.
LEMMA PutInvariant == IInv /\ Put => IInv'
<1> SUFFICES ASSUME IInv, Put PROVE IInv'
  OBVIOUS
<1>1. get' = get /\ versions' = versions + 1 /\ versions \in Nat
  BY DEF Put, IInv, TypeOK
<1>2. PICK chunks : object' = [version |-> versions + 1, chunks |-> chunks] /\ Gapless(chunks)
  <2>1. PICK n \in 0..MaxChunks : \E sizes \in [1..n -> 0..MaxSize] :
               object' = [version |-> versions', chunks |-> Chunks(sizes)]
    BY DEF Put
  <2>2. PICK sizes \in [1..n -> 0..MaxSize] :
               object' = [version |-> versions', chunks |-> Chunks(sizes)]
    BY <2>1
  <2>3. n \in Nat /\ sizes \in [1..n -> Nat]
    BY SizesAssumption
  <2>4. Gapless(Chunks(sizes))
    BY <2>3, ChunksGapless
  <2> QED BY <1>1, <2>2, <2>4
<1>3. TypeOK'
  <2>1. object' \in Object
    BY <1>1, <1>2 DEF Object, Gapless
  <2> QED BY <1>1, <2>1 DEF IInv, TypeOK
<1>4. ObjectOK'
  <2>1. get.sized # None => get.sized <= versions /\ get.sized \in Nat
    BY DEF IInv, ObjectOK, TypeOK
  <2> QED BY <1>1, <1>2, <2>1 DEF ObjectOK
<1>5. RangeOK'
  <2>1. get.sized \in Nat => get.sized # versions + 1
    BY <1>1, NoneAssumption DEF IInv, ObjectOK
  <2>2. object'.version = versions + 1
    BY <1>2
  <2> QED BY <1>1, <2>1, <2>2 DEF IInv, RangeOK, Responding
<1>6. ProgressOK' /\ BufferOK'
  BY <1>1 DEF IInv, ProgressOK, BufferOK
<1> QED BY <1>3, <1>4, <1>5, <1>6 DEF IInv

\* The object goes away; who reads it has all he needs.
LEMMA DeleteInvariant == IInv /\ Delete => IInv'
<1> SUFFICES ASSUME IInv, Delete PROVE IInv'
  OBVIOUS
<1>1. object' = None /\ get' = get /\ versions' = versions
  BY DEF Delete
<1>2. TypeOK' /\ ObjectOK'
  BY <1>1 DEF IInv, TypeOK, ObjectOK
<1>3. RangeOK' /\ ProgressOK' /\ BufferOK'
  BY <1>1 DEF IInv, RangeOK, ProgressOK, BufferOK, Responding
<1> QED BY <1>2, <1>3 DEF IInv

\* A GET that is over, whatever became of it.
LEMMA IdleInvariant ==
  ASSUME IInv, get' = Idle, UNCHANGED <<object, versions>>
  PROVE  IInv'
<1>1. object' = object /\ versions' = versions
  OBVIOUS
<1>2. TypeOK'
  BY <1>1 DEF IInv, TypeOK, Idle
<1>3. ObjectOK' /\ RangeOK' /\ ProgressOK' /\ BufferOK'
  BY <1>1 DEF IInv, ObjectOK, RangeOK, ProgressOK, BufferOK, Idle, Responding
<1> QED BY <1>2, <1>3 DEF IInv

\* A GET without a range asks for nothing yet.
LEMMA StartAllInvariant == IInv /\ StartAll => IInv'
<1> SUFFICES ASSUME IInv, StartAll PROVE IInv'
  OBVIOUS
<1>1. /\ object' = object /\ versions' = versions
      /\ get' = [at |-> "open", range |-> NoRange, sized |-> None, info |-> None, left |-> <<>>,
                 buffer |-> None, sent |-> <<>>]
  BY DEF StartAll, Idle
<1>2. TypeOK'
  BY <1>1 DEF IInv, TypeOK
<1>3. ObjectOK' /\ RangeOK' /\ ProgressOK' /\ BufferOK'
  BY <1>1 DEF IInv, ObjectOK, RangeOK, ProgressOK, BufferOK, Responding
<1> QED BY <1>2, <1>3 DEF IInv

\* A range is parsed against the size of the object as it is now.
LEMMA StartRangeInvariant == IInv /\ StartRange => IInv'
<1> SUFFICES ASSUME IInv, StartRange PROVE IInv'
  OBVIOUS
<1>1. object' = object /\ versions' = versions /\ object # None
  BY DEF StartRange
<1>2. object.version \in Nat /\ object.version <= versions /\ Gapless(object.chunks)
      /\ object.chunks \in Seq(Chunk)
  BY <1>1 DEF IInv, TypeOK, ObjectOK, Object
<1>3. PICK header \in Headers :
        LET r == ParseRange(header, Size(object.chunks)) IN
        /\ r # None
        /\ get' = [Idle EXCEPT !.at = "open", !.range = r, !.sized = object.version]
  BY DEF StartRange
<1> DEFINE r == ParseRange(header, Size(object.chunks))
<1>4. r \in ByteRange /\ r.start <= r.end /\ r.end < Size(object.chunks)
  BY <1>2, <1>3, SizeType, ParseRangeValid
<1>5. get' = [at |-> "open", range |-> r, sized |-> object.version, info |-> None, left |-> <<>>,
              buffer |-> None, sent |-> <<>>]
  BY <1>3 DEF Idle
<1> HIDE DEF r
<1>6. TypeOK'
  BY <1>1, <1>2, <1>4, <1>5 DEF IInv, TypeOK
<1>7. ObjectOK' /\ RangeOK' /\ ProgressOK' /\ BufferOK'
  BY <1>1, <1>2, <1>4, <1>5 DEF IInv, ObjectOK, RangeOK, ProgressOK, BufferOK, Responding
<1> QED BY <1>6, <1>7 DEF IInv

\* What the object is opened with is what the loops over its chunks make of it.
LEMMA OpenInvariant == IInv /\ Open => IInv'
<1> SUFFICES ASSUME IInv, Open PROVE IInv'
  OBVIOUS
<1> DEFINE r == get.range
           size == Size(object.chunks)
<1>1. object' = object /\ versions' = versions /\ object # None /\ get.at = "open"
  BY DEF Open
<1>2. object.version \in Nat /\ Gapless(object.chunks) /\ size \in Nat
  BY <1>1, SizeType DEF IInv, TypeOK, ObjectOK, Object, Gapless
<1>3. /\ r \in ByteRange \cup {NoRange}
      /\ r # NoRange => r.start <= r.end
      /\ get.sized \in Nat \cup {None} /\ get.buffer = None /\ get.sent = <<>>
  BY <1>1 DEF IInv, TypeOK, RangeOK
<1>4. get' = [at |-> "body", range |-> r, sized |-> get.sized,
              info |-> [version |-> object.version, size |-> size],
              left |-> Selected(object.chunks, r), buffer |-> None, sent |-> <<>>]
  BY <1>1, <1>3 DEF Open, IInv, TypeOK
<1>5. Joined(Selected(object.chunks, r), From(r), Until(r, size))
  BY <1>2, <1>3, SelectedJoined
<1>6. From(r) \in Nat /\ Until(r, size) \in Nat /\ From(r) <= Until(r, size) /\ From(r) + 0 = From(r)
  BY <1>2, <1>3, Bounds
<1>7. r # NoRange => (get.sized = object.version => r.end < size)
  BY <1>1 DEF IInv, RangeOK
<1> HIDE DEF size, r
<1>8. TypeOK'
  <2>1. Selected(object.chunks, r) \in Seq(Selection)
    BY <1>5 DEF Joined
  <2> QED BY <1>1, <1>2, <1>3, <1>4, <2>1 DEF IInv, TypeOK, Info
<1>9. RangeOK'
  BY <1>1, <1>2, <1>3, <1>4, <1>7 DEF RangeOK, Responding, Info
<1>10. ProgressOK'
  <2>1. Run(object.version, From(r), 0) = <<>> /\ Len(<<>>) = 0
    BY DEF Run
  <2>2. From(r) + Len(<<>>) = From(r)
    BY <1>6, <2>1
  <2> QED BY <1>4, <1>5, <1>6, <2>1, <2>2 DEF ProgressOK
<1>11. ObjectOK' /\ BufferOK'
  BY <1>1, <1>4 DEF IInv, ObjectOK, BufferOK
<1> QED BY <1>8, <1>9, <1>10, <1>11 DEF IInv

\* What a response that is under way stands for.
LEMMA BodyFacts ==
  ASSUME IInv, get.at = "body"
  PROVE  /\ get.info \in Info /\ get.range \in ByteRange \cup {NoRange}
         /\ get.sized \in Nat \cup {None} /\ get.buffer = None /\ get.sent \in Seq(Byte)
         /\ get.sent = Run(get.info.version, From(get.range), Len(get.sent))
         /\ Joined(get.left, From(get.range) + Len(get.sent), Until(get.range, get.info.size))
         /\ From(get.range) \in Nat /\ Until(get.range, get.info.size) \in Nat
         /\ get.range # NoRange =>
              /\ get.range.start <= get.range.end
              /\ get.sized = get.info.version => get.range.end < get.info.size
<1>1. get.info \in Info /\ get.range \in ByteRange \cup {NoRange}
  BY DEF IInv, TypeOK, RangeOK, Responding
<1>2. /\ get.sized \in Nat \cup {None} /\ get.buffer = None /\ get.sent \in Seq(Byte)
      /\ get.sent = Run(get.info.version, From(get.range), Len(get.sent))
      /\ Joined(get.left, From(get.range) + Len(get.sent), Until(get.range, get.info.size))
  BY DEF IInv, TypeOK, ProgressOK
<1>3. From(get.range) \in Nat /\ Until(get.range, get.info.size) \in Nat
  BY <1>1, Bounds DEF Info
<1>4. get.range # NoRange =>
        /\ get.range.start <= get.range.end
        /\ get.sized = get.info.version => get.range.end < get.info.size
  BY DEF IInv, RangeOK, Responding
<1> QED BY <1>1, <1>2, <1>3, <1>4

\* More bytes are sent of the chunk the reader stands at.
LEMMA SendMore ==
  ASSUME IInv, get.at = "body", get.left # <<>>, NEW n \in 0..Head(get.left).take
  PROVE  LET sent == get.sent \o Bytes(Head(get.left), get.info.version, n) IN
         /\ sent \in Seq(Byte) /\ Len(sent) = Len(get.sent) + n
         /\ sent = Run(get.info.version, From(get.range), Len(sent))
         /\ From(get.range) + Len(sent) <= Until(get.range, get.info.size)
<1> DEFINE v == get.info.version
           from == From(get.range)
           done == Len(get.sent)
           sent == get.sent \o Bytes(Head(get.left), v, n)
<1>1. v \in Nat /\ from \in Nat /\ done \in Nat /\ get.sent = Run(v, from, done)
  BY BodyFacts DEF Info
<1>2. /\ Head(get.left) \in Selection /\ Pos(Head(get.left)) = from + done
      /\ from + done + Head(get.left).take <= Until(get.range, get.info.size)
  BY BodyFacts, HeadJoined
<1>3. n \in Nat /\ n <= Head(get.left).take /\ Head(get.left).take \in Nat
  BY <1>2 DEF Selection
<1>4. Bytes(Head(get.left), v, n) = Run(v, from + done, n)
  BY <1>2, BytesAreRun
<1>5. IsRun(sent, v, from, done + n)
  <2>1. IsRun(get.sent, v, from, done)
    BY <1>1, RunIsRun
  <2>2. IsRun(Bytes(Head(get.left), v, n), v, from + done, n)
    <3>1. from + done \in Nat
      BY <1>1
    <3> QED BY <1>1, <1>3, <1>4, <3>1, RunIsRun
  <2>3. Follows(from + done, from, done) /\ Follows(done + n, done, n)
    BY DEF Follows
  <2> HIDE DEF v, from, done
  <2> QED BY <1>1, <1>3, <2>1, <2>2, <2>3, RunsConcatenated
<1>6. sent = Run(v, from, done + n)
  <2>1. done + n \in Nat
    BY <1>1, <1>3
  <2> HIDE DEF v, from, done, sent
  <2> QED BY <1>1, <1>5, <2>1, IsRunRun
<1>7. sent \in Seq(Byte) /\ Len(sent) = done + n
  <2> HIDE DEF v, from, done, sent
  <2>1. done + n \in Nat
    BY <1>1, <1>3
  <2> QED BY <1>1, <1>6, <2>1, RunType
<1>8. from + (done + n) <= Until(get.range, get.info.size)
  <2> HIDE DEF v, from, done, sent
  <2>1. Until(get.range, get.info.size) \in Nat
    BY BodyFacts
  <2> QED BY <1>1, <1>2, <1>3, <2>1
<1> HIDE DEF sent
<1>9. /\ sent \in Seq(Byte) /\ Len(sent) = Len(get.sent) + n
      /\ sent = Run(get.info.version, From(get.range), Len(sent))
      /\ From(get.range) + Len(sent) <= Until(get.range, get.info.size)
  BY <1>6, <1>7, <1>8
<1> QED BY <1>9 DEF sent

\* A chunk is sent from where the reader stands, and he stands where it ends.
LEMMA CopyInvariant == IInv /\ Copy => IInv'
<1> SUFFICES ASSUME IInv, Copy PROVE IInv'
  OBVIOUS
<1> DEFINE head == Head(get.left)
           sent == get.sent \o Bytes(head, get.info.version, head.take)
           until == Until(get.range, get.info.size)
<1>1. object' = object /\ versions' = versions /\ get.at = "body" /\ get.left # <<>>
  BY DEF Copy
<1>2. /\ get.info \in Info /\ get.range \in ByteRange \cup {NoRange}
      /\ get.sized \in Nat \cup {None} /\ get.buffer = None
      /\ get.range # NoRange =>
           /\ get.range.start <= get.range.end
           /\ get.sized = get.info.version => get.range.end < get.info.size
      /\ From(get.range) \in Nat /\ Len(get.sent) \in Nat
  BY <1>1, BodyFacts
<1>3. get' = [at |-> "body", range |-> get.range, sized |-> get.sized, info |-> get.info,
              left |-> Tail(get.left), buffer |-> None, sent |-> sent]
  BY <1>1, <1>2 DEF Copy, IInv, TypeOK
<1>4. /\ head \in Selection
      /\ From(get.range) + Len(get.sent) + head.take = Past(head)
      /\ Joined(Tail(get.left), Past(head), until)
  BY <1>1, BodyFacts, HeadJoined
<1>5. head.take \in 0..head.take /\ head.take \in Nat
  BY <1>4 DEF Selection
<1>6. /\ sent \in Seq(Byte) /\ Len(sent) = Len(get.sent) + head.take
      /\ sent = Run(get.info.version, From(get.range), Len(sent))
      /\ From(get.range) + Len(sent) <= until
  <2> HIDE DEF head, until
  <2>1. head.take \in 0..Head(get.left).take
    BY <1>5 DEF head
  <2> QED BY <1>1, <2>1, SendMore DEF head, until
<1> HIDE DEF head, sent, until
<1>7. From(get.range) + Len(sent) = Past(head)
  BY <1>2, <1>4, <1>5, <1>6
<1>8. TypeOK'
  <2>1. Tail(get.left) \in Seq(Selection)
    BY <1>4 DEF Joined
  <2> QED BY <1>1, <1>2, <1>3, <1>6, <2>1 DEF IInv, TypeOK
<1>9. RangeOK'
  BY <1>2, <1>3, NoneAssumption DEF RangeOK, Responding
<1>10. ProgressOK'
  BY <1>3, <1>4, <1>6, <1>7 DEF ProgressOK, until
<1>11. ObjectOK' /\ BufferOK'
  BY <1>1, <1>3 DEF IInv, ObjectOK, BufferOK
<1> QED BY <1>8, <1>9, <1>10, <1>11 DEF IInv

\* A download that breaks off within a chunk has sent a beginning of it.
LEMMA BreakInvariant == IInv /\ Break => IInv'
<1> SUFFICES ASSUME IInv, Break PROVE IInv'
  OBVIOUS
<1>1. object' = object /\ versions' = versions /\ get.at = "body" /\ get.left # <<>>
  BY DEF Break
<1>2. PICK n \in 0..(Head(get.left).take - 1) :
        get' = [get EXCEPT !.at = "broken", !.left = <<>>,
                           !.sent = @ \o Bytes(Head(get.left), get.info.version, n)]
  BY DEF Break
<1> DEFINE sent == get.sent \o Bytes(Head(get.left), get.info.version, n)
           until == Until(get.range, get.info.size)
<1>3. /\ get.info \in Info /\ get.range \in ByteRange \cup {NoRange}
      /\ get.sized \in Nat \cup {None} /\ get.buffer = None
      /\ get.range # NoRange =>
           /\ get.range.start <= get.range.end
           /\ get.sized = get.info.version => get.range.end < get.info.size
  BY <1>1, BodyFacts
<1>4. get' = [at |-> "broken", range |-> get.range, sized |-> get.sized, info |-> get.info,
              left |-> <<>>, buffer |-> None, sent |-> sent]
  BY <1>1, <1>2, <1>3 DEF IInv, TypeOK
<1>5. /\ sent \in Seq(Byte)
      /\ sent = Run(get.info.version, From(get.range), Len(sent))
      /\ From(get.range) + Len(sent) <= until
  <2>1. Head(get.left) \in Selection
    BY <1>1, BodyFacts, HeadJoined
  <2>2. n \in 0..Head(get.left).take
    BY <2>1 DEF Selection
  <2> QED BY <1>1, <2>2, SendMore
<1> HIDE DEF sent, until
<1>6. TypeOK'
  BY <1>1, <1>3, <1>4, <1>5 DEF IInv, TypeOK
<1>7. RangeOK'
  BY <1>3, <1>4, NoneAssumption DEF RangeOK, Responding
<1>8. ProgressOK'
  BY <1>4, <1>5 DEF ProgressOK, until
<1>9. ObjectOK' /\ BufferOK'
  BY <1>1, <1>4 DEF IInv, ObjectOK, BufferOK
<1> QED BY <1>6, <1>7, <1>8, <1>9 DEF IInv

\* Nothing is left, so the last chunk ended where the range does.
LEMMA FinishInvariant == IInv /\ Finish => IInv'
<1> SUFFICES ASSUME IInv, Finish PROVE IInv'
  OBVIOUS
<1> DEFINE from == From(get.range)
           until == Until(get.range, get.info.size)
<1>1. object' = object /\ versions' = versions /\ get.at = "body" /\ get.left = <<>>
  BY DEF Finish
<1>2. /\ get.info \in Info /\ get.range \in ByteRange \cup {NoRange}
      /\ get.sized \in Nat \cup {None} /\ get.buffer = None /\ get.sent \in Seq(Byte)
      /\ get.range # NoRange =>
           /\ get.range.start <= get.range.end
           /\ get.sized = get.info.version => get.range.end < get.info.size
      /\ get.sent = Run(get.info.version, from, Len(get.sent))
      /\ Joined(get.left, from + Len(get.sent), until) /\ from \in Nat /\ until \in Nat
  BY <1>1, BodyFacts
<1>3. get' = [at |-> "done", range |-> get.range, sized |-> get.sized, info |-> get.info,
              left |-> <<>>, buffer |-> None, sent |-> get.sent]
  BY <1>1, <1>2 DEF Finish, IInv, TypeOK
<1>4. Len(get.sent) = until - from
  <2>1. from + Len(get.sent) = until /\ Len(get.sent) \in Nat
    BY <1>1, <1>2 DEF Joined
  <2> HIDE DEF from, until
  <2> QED BY <1>2, <2>1
<1>5. TypeOK'
  BY <1>1, <1>2, <1>3 DEF IInv, TypeOK
<1>6. RangeOK'
  BY <1>2, <1>3, NoneAssumption DEF RangeOK, Responding
<1>7. ProgressOK'
  BY <1>2, <1>3, <1>4 DEF ProgressOK
<1>8. ObjectOK' /\ BufferOK'
  BY <1>1, <1>3 DEF IInv, ObjectOK, BufferOK
<1> QED BY <1>5, <1>6, <1>7, <1>8 DEF IInv

\* A WebDAV file is opened for the object as it is now.
LEMMA DavOpenInvariant == IInv /\ DavOpen => IInv'
<1> SUFFICES ASSUME IInv, DavOpen PROVE IInv'
  OBVIOUS
<1>1. object' = object /\ versions' = versions /\ object # None
  BY DEF DavOpen
<1>2. object.version \in Nat /\ object.version <= versions
  BY <1>1 DEF IInv, TypeOK, ObjectOK, Object
<1>3. get' = [at |-> "davOpen", range |-> NoRange, sized |-> object.version, info |-> None,
              left |-> <<>>, buffer |-> None, sent |-> <<>>]
  BY DEF DavOpen, Idle
<1>4. TypeOK'
  BY <1>1, <1>2, <1>3 DEF IInv, TypeOK
<1>5. ObjectOK' /\ RangeOK' /\ ProgressOK' /\ BufferOK'
  BY <1>1, <1>2, <1>3 DEF IInv, ObjectOK, RangeOK, ProgressOK, BufferOK, Responding
<1> QED BY <1>4, <1>5 DEF IInv

\* ensureReadBuffer takes the whole of the object as it is by now.
LEMMA DavGetInvariant == IInv /\ DavGet => IInv'
<1> SUFFICES ASSUME IInv, DavGet PROVE IInv'
  OBVIOUS
<1> DEFINE size == Size(object.chunks)
           left == Selected(object.chunks, NoRange)
<1>1. object' = object /\ versions' = versions /\ object # None /\ get.at = "davOpen"
  BY DEF DavGet
<1>2. object.version \in Nat /\ Gapless(object.chunks) /\ size \in Nat
  BY <1>1, SizeType DEF IInv, TypeOK, ObjectOK, Object, Gapless
<1>3. /\ get.range = NoRange /\ get.buffer = None
      /\ get.sized \in Nat \cup {None} /\ get.sent \in Seq(Byte)
  BY <1>1 DEF IInv, TypeOK, BufferOK
<1>4. get' = [at |-> "davRead", range |-> NoRange, sized |-> get.sized,
              info |-> [version |-> object.version, size |-> size],
              left |-> left, buffer |-> None, sent |-> get.sent]
  BY <1>1, <1>3 DEF DavGet, IInv, TypeOK
<1>5. Joined(left, 0, size)
  BY <1>2, SelectedJoined DEF From, Until
<1> HIDE DEF size, left
<1>6. TypeOK'
  <2>1. left \in Seq(Selection)
    BY <1>5 DEF Joined
  <2> QED BY <1>1, <1>2, <1>3, <1>4, <2>1 DEF IInv, TypeOK, Info
<1>7. BufferOK'
  BY <1>2, <1>4, <1>5 DEF BufferOK, Info
<1>8. ObjectOK' /\ RangeOK' /\ ProgressOK'
  BY <1>1, <1>4 DEF IInv, ObjectOK, RangeOK, ProgressOK, Responding
<1> QED BY <1>6, <1>7, <1>8 DEF IInv

\* The buffer is filled with the whole of the version that was opened.
LEMMA DavReadInvariant == IInv /\ DavRead => IInv'
<1> SUFFICES ASSUME IInv, DavRead PROVE IInv'
  OBVIOUS
<1> DEFINE buffer == FlattenSeq([i \in DOMAIN get.left |->
                                   Bytes(get.left[i], get.info.version, get.left[i].take)])
<1>1. object' = object /\ versions' = versions /\ get.at = "davRead" /\ get.buffer = None
  BY DEF DavRead
<1>2. /\ get.range = NoRange /\ get.info \in Info /\ Joined(get.left, 0, get.info.size)
      /\ get.sized \in Nat \cup {None} /\ get.sent \in Seq(Byte)
  BY <1>1 DEF IInv, TypeOK, BufferOK
<1>3. buffer = Run(get.info.version, 0, get.info.size)
  <2>1. get.info.version \in Nat /\ get.info.size \in Nat /\ get.info.size - 0 = get.info.size
    BY <1>2 DEF Info
  <2>2. buffer = Run(get.info.version, 0, get.info.size - 0)
    BY <1>2, <2>1, ReadAll
  <2> QED BY <2>1, <2>2
<1>4. buffer \in Seq(Byte)
  <2>1. get.info.version \in Nat /\ get.info.size \in Nat
    BY <1>2 DEF Info
  <2>2. IsRun(buffer, get.info.version, 0, get.info.size)
    BY <1>3, <2>1, RunIsRun
  <2> QED BY <2>2 DEF IsRun
<1>5. get' = [at |-> "davRead", range |-> NoRange, sized |-> get.sized, info |-> get.info,
              left |-> <<>>, buffer |-> buffer, sent |-> get.sent]
  BY <1>1, <1>2 DEF DavRead, IInv, TypeOK
<1> HIDE DEF buffer
<1>6. TypeOK'
  BY <1>1, <1>2, <1>4, <1>5 DEF IInv, TypeOK
<1>7. BufferOK'
  BY <1>2, <1>3, <1>4, <1>5, NoneAssumption DEF BufferOK
<1>8. ObjectOK' /\ RangeOK' /\ ProgressOK'
  BY <1>1, <1>5 DEF IInv, ObjectOK, RangeOK, ProgressOK, Responding
<1> QED BY <1>6, <1>7, <1>8 DEF IInv

\* Whatever is served comes out of the buffer, and so does the size it is measured by.
LEMMA DavServeInvariant == IInv /\ DavServe => IInv'
<1> SUFFICES ASSUME IInv, DavServe PROVE IInv'
  OBVIOUS
<1> DEFINE v == get.info.version
           size == get.info.size
<1>1. object' = object /\ versions' = versions /\ get.at = "davRead" /\ get.buffer # None
  BY DEF DavServe
<1>2. /\ get.range = NoRange /\ get.info \in Info /\ get.buffer = Run(v, 0, size)
      /\ get.sized \in Nat \cup {None} /\ get.buffer \in Seq(Byte)
  BY <1>1 DEF IInv, TypeOK, BufferOK
<1>3. v \in Nat /\ size \in Nat /\ Len(get.buffer) = size
  <2>1. v \in Nat /\ size \in Nat
    BY <1>2 DEF Info
  <2>2. IsRun(get.buffer, v, 0, size)
    BY <1>2, <2>1, RunIsRun
  <2> QED BY <2>1, <2>2 DEF IsRun
<1>4. PICK r \in ByteRange \cup {NoRange}, sent \in Seq(Byte) :
        /\ get' = [get EXCEPT !.at = "done", !.range = r, !.sent = sent]
        /\ sent = Run(v, From(r), Until(r, size) - From(r))
        /\ r # NoRange => r.start <= r.end /\ r.end < size
  <2>1. CASE get' = [get EXCEPT !.at = "done", !.sent = get.buffer]
    <3>1. get' = [get EXCEPT !.at = "done", !.range = NoRange, !.sent = get.buffer]
      BY <1>2, <2>1 DEF IInv, TypeOK
    <3>2. Until(NoRange, size) - From(NoRange) = size /\ From(NoRange) = 0
      BY <1>3 DEF From, Until
    <3> QED BY <1>2, <3>1, <3>2
  <2>2. CASE \E stop \in 0..(Len(get.buffer) - 1) : \E start \in 0..stop :
               get' = [get EXCEPT !.at = "done", !.range = [start |-> start, end |-> stop],
                                  !.sent = SubSeq(get.buffer, start + 1, stop + 1)]
    <3>1. PICK stop \in 0..(size - 1) : \E start \in 0..stop :
               get' = [get EXCEPT !.at = "done", !.range = [start |-> start, end |-> stop],
                                  !.sent = SubSeq(get.buffer, start + 1, stop + 1)]
      BY <1>3, <2>2
    <3>2. PICK start \in 0..stop :
               get' = [get EXCEPT !.at = "done", !.range = [start |-> start, end |-> stop],
                                  !.sent = SubSeq(get.buffer, start + 1, stop + 1)]
      BY <3>1
    <3> DEFINE r == [start |-> start, end |-> stop]
               sent == SubSeq(get.buffer, start + 1, stop + 1)
    <3>3. start \in Nat /\ stop \in Nat /\ start <= stop /\ stop < size
      BY <1>3
    <3>4. r \in ByteRange /\ r # NoRange
      BY <3>3, NoneAssumption DEF ByteRange, NoRange
    <3>5. From(r) = start /\ Until(r, size) - From(r) = stop + 1 - start
      BY <1>3, <3>3, <3>4 DEF From, Until, StopAt, Greatest, Least
    <3>6. sent \in Seq(Byte) /\ sent = Run(v, start, stop + 1 - start)
      <4>1. /\ SubSeq(Run(v, 0, size), start + 1, stop + 1) \in Seq(Byte)
            /\ SubSeq(Run(v, 0, size), start + 1, stop + 1) = Run(v, start, stop + 1 - start)
        <5> HIDE DEF v, size
        <5> QED BY <1>3, RunCut
      <4> QED BY <1>2, <4>1
    <3>7. r.start <= r.end /\ r.end < size
      BY <3>3
    <3>8. sent = Run(v, From(r), Until(r, size) - From(r))
      BY <3>5, <3>6
    <3>9. get' = [get EXCEPT !.at = "done", !.range = r, !.sent = sent]
      BY <3>2
    <3> HIDE DEF r, sent, v, size
    <3> QED BY <3>4, <3>6, <3>7, <3>8, <3>9
  <2> QED BY <2>1, <2>2 DEF DavServe
<1>5. get' = [at |-> "done", range |-> r, sized |-> get.sized, info |-> get.info,
              left |-> get.left, buffer |-> get.buffer, sent |-> sent]
  BY <1>4 DEF IInv, TypeOK
<1>6. TypeOK'
  BY <1>1, <1>2, <1>4, <1>5 DEF IInv, TypeOK
<1>7. RangeOK' /\ ProgressOK'
  BY <1>2, <1>4, <1>5 DEF RangeOK, ProgressOK, Responding
<1>8. ObjectOK' /\ BufferOK'
  BY <1>1, <1>5 DEF IInv, ObjectOK, BufferOK
<1> QED BY <1>6, <1>7, <1>8 DEF IInv

\* Every step preserves the invariant.
LEMMA NextInvariant == IInv /\ [Next]_vars => IInv'
<1> SUFFICES ASSUME IInv, [Next]_vars PROVE IInv'
  OBVIOUS
<1>1. CASE Put
  BY <1>1, PutInvariant
<1>2. CASE Delete
  BY <1>2, DeleteInvariant
<1>3. CASE StartAll
  BY <1>3, StartAllInvariant
<1>4. CASE StartRange
  BY <1>4, StartRangeInvariant
<1>5. CASE NoSuchKey
  BY <1>5, IdleInvariant DEF NoSuchKey
<1>6. CASE Open
  BY <1>6, OpenInvariant
<1>7. CASE Copy
  BY <1>7, CopyInvariant
<1>8. CASE Break
  BY <1>8, BreakInvariant
<1>9. CASE Finish
  BY <1>9, FinishInvariant
<1>10. CASE DavOpen
  BY <1>10, DavOpenInvariant
<1>11. CASE DavGet
  BY <1>11, DavGetInvariant
<1>12. CASE DavFail
  BY <1>12, IdleInvariant DEF DavFail
<1>13. CASE DavRead
  BY <1>13, DavReadInvariant
<1>14. CASE DavServe
  BY <1>14, DavServeInvariant
<1>15. CASE Forget
  BY <1>15, IdleInvariant DEF Forget
<1>16. CASE UNCHANGED vars
  <2>1. object' = object /\ versions' = versions /\ get' = get
    BY <1>16 DEF vars
  <2> QED BY <2>1 DEF IInv, TypeOK, ObjectOK, RangeOK, ProgressOK, BufferOK, Responding
<1> QED
  BY <1>1, <1>2, <1>3, <1>4, <1>5, <1>6, <1>7, <1>8, <1>9, <1>10, <1>11, <1>12, <1>13, <1>14,
     <1>15, <1>16 DEF Next
--------------------------------------------------------------------------------
(* The theorems *)

\* The invariant holds in every state, for every bound on sizes, chunks and versions.
THEOREM Invariance == Spec => []IInv
BY InitInvariant, NextInvariant, PTL DEF Spec

\* The invariant says which run was sent.
LEMMA RightBytesHold == IInv => RightBytes
<1> SUFFICES ASSUME IInv, Responding
             PROVE  /\ IsPrefix(get.sent, Wanted(get.info, get.range))
                    /\ get.at = "done" => get.sent = Wanted(get.info, get.range)
  BY DEF RightBytes
<1> DEFINE v == get.info.version
           from == From(get.range)
           until == Until(get.range, get.info.size)
<1>1. /\ get.info \in Info /\ get.range \in ByteRange \cup {NoRange} /\ get.sent \in Seq(Byte)
      /\ v \in Nat /\ get.info.size \in Nat
  BY DEF IInv, TypeOK, RangeOK, Info
<1>2. from \in Nat /\ until \in Nat /\ from <= until /\ until - from \in Nat
  <2>1. from \in Nat /\ until \in Nat /\ from <= until
    BY <1>1, Bounds
  <2> HIDE DEF from, until
  <2> QED BY <2>1
<1>3. Wanted(get.info, get.range) = Run(v, from, until - from)
  BY <1>1, WantedIsRun
<1>4. CASE get.at = "done"
  <2>1. get.sent = Run(v, from, until - from)
    BY <1>4 DEF IInv, ProgressOK
  <2>2. IsPrefix(Run(v, from, until - from), Run(v, from, until - from))
    <3> HIDE DEF v, from, until
    <3> QED BY <1>1, <1>2, RunPrefix
  <2> QED BY <1>3, <2>1, <2>2
<1>5. CASE get.at # "done"
  <2>1. get.sent = Run(v, from, Len(get.sent)) /\ from + Len(get.sent) <= until
    BY <1>5 DEF IInv, ProgressOK, Responding
  <2>2. IsPrefix(Run(v, from, Len(get.sent)), Run(v, from, until - from))
    <3>1. Len(get.sent) \in Nat
      BY <1>1
    <3>2. Len(get.sent) <= until - from
      <4> HIDE DEF from, until
      <4> QED BY <1>2, <2>1, <3>1
    <3> HIDE DEF v, from, until
    <3> QED BY <1>1, <1>2, <3>1, <3>2, RunPrefix
  <2> QED BY <1>3, <1>5, <2>1, <2>2
<1> QED BY <1>4, <1>5

\* The run asked for has the length of the range if the range lies in the object.
LEMMA LengthKeptHolds == IInv => LengthKept
<1> SUFFICES ASSUME IInv, get.at = "done", get.range # NoRange,
                    get.buffer # None \/ get.sized = get.info.version
             PROVE  Len(get.sent) = RangeLength(get.range)
  BY DEF LengthKept
<1> DEFINE r == get.range
<1>1. /\ get.info \in Info /\ r \in ByteRange /\ r.start <= r.end /\ r.end < get.info.size
      /\ get.info.version \in Nat /\ get.info.size \in Nat /\ r.start \in Nat /\ r.end \in Nat
  BY DEF IInv, TypeOK, RangeOK, Info, ByteRange, Responding
<1>2. get.sent = Run(get.info.version, From(r), Until(r, get.info.size) - From(r))
  BY DEF IInv, ProgressOK
<1>3. From(r) = r.start /\ Until(r, get.info.size) - From(r) = r.end - r.start + 1
  BY <1>1 DEF From, Until, StopAt, Greatest, Least
<1>4. r.end - r.start + 1 \in Nat
  BY <1>1
<1>5. Len(Run(get.info.version, r.start, r.end - r.start + 1)) = r.end - r.start + 1
  <2>1. IsRun(Run(get.info.version, r.start, r.end - r.start + 1),
              get.info.version, r.start, r.end - r.start + 1)
    BY <1>1, <1>4, RunIsRun
  <2> QED BY <2>1 DEF IsRun
<1> QED BY <1>2, <1>3, <1>5 DEF RangeLength

\* A response is a prefix of the bytes its range asks for of one version, and all of
\* them when it ends without an error (store/range.go, store.go:496-563).
THEOREM ResponsesRight == Spec => []RightBytes
BY Invariance, RightBytesHold, PTL

\* A response has the length it announced if the object was not written between the
\* read of its size and that of its chunks; over WebDAV always (s3api/server.go:500-527,
\* dav/fs.go:420-445).
THEOREM LengthsKept == Spec => []LengthKept
BY Invariance, LengthKeptHolds, PTL
================================================================================
